---- MODULE Spec2Model ----
(***************************************************************************)
(* Session persistence and message reconciliation of the agent service:    *)
(*   - the message reconciler of LiteLlm.generate_content_async            *)
(*     (src/openai_model.py): the conversion loop over the request's       *)
(*     contents, _safe_serialize on tool results, and the repair pass;     *)
(*   - PostgresSessionService (src/postgres_session_service.py): the       *)
(*     Event codec, and create, get (with its retry wrapper), append,      *)
(*     delete and list over the adk_sessions table, executed by            *)
(*     independent server processes;                                       *)
(*   - one chat turn of src/server.py (chat, stream_with_persistence,      *)
(*     stream_generator) over the table and the chat_sessions documents    *)
(*     of src/database.py, and the session setup of two turns that run     *)
(*     side by side;                                                       *)
(*   - the completion call of generate_content_async and its handler.      *)
(***************************************************************************)
EXTENDS Integers, Sequences, FiniteSets, TLC

(***************************************************************************)
(* Python values.  None is a reserved value that is not a member of any    *)
(* text, id or role alphabet below; Truthy is Python's truth test on an    *)
(* optional string (None and "" are falsy).                                *)
(***************************************************************************)
None == "None"

Truthy(x) == x # None /\ x # ""

\* `x or d`
OrElse(x, d) == IF Truthy(x) THEN x ELSE d

\* json.dumps of a value that is not a string: an encoding, tagged so that it
\* is never equal to the value it encodes.
JsonDumps(x) == <<"json", x>>

RECURSIVE SelectSeqIdx(_, _)
\* the subsequence of s at the (increasing) positions of the set idx
SelectSeqIdx(s, idx) ==
    IF s = <<>> THEN <<>>
    ELSE LET n == Len(s)
             front == SelectSeqIdx(SubSeq(s, 1, n - 1), idx)
         IN IF n \in idx THEN Append(front, s[n]) ELSE front

\* s is t or a front part of t
IsPrefix(s, t) == Len(s) <= Len(t) /\ SubSeq(t, 1, Len(s)) = s

(***************************************************************************)
(* The values a tool hands back as function_response.response: str, dict,  *)
(* list, an object with attributes (a Result object is one with the        *)
(* attribute `value`), and an object that json.dumps rejects and that has  *)
(* no attributes (a set, bytes).                                           *)
(***************************************************************************)
Str(s) == [kind |-> "str", of |-> s]
Dict(m) == [kind |-> "dict", of |-> m]
List(l) == [kind |-> "list", of |-> l]
Object(attrs) == [kind |-> "object", of |-> attrs]
Opaque == [kind |-> "opaque", of |-> "<set>"]

\* hasattr(obj, 'value')
HasValue(obj) == obj.kind = "object" /\ "value" \in DOMAIN obj.of

\* hasattr(obj, '__dict__')
HasDict(obj) == obj.kind = "object"

\* k.startswith('_')
IsPrivate(k) == k = "_p"

\* {k: v for k, v in obj.__dict__.items() if not k.startswith('_')}
PublicDict(obj) ==
    Dict([k \in {j \in DOMAIN obj.of : ~IsPrivate(j)} |-> obj.of[k]])

\* str(obj)
PyStr(obj) ==
    Str(IF obj.kind \in {"str", "opaque"} THEN obj.of
        ELSE "<" \o obj.kind \o ">")

RECURSIVE JsonEncodable(_)
\* json.dumps(obj) does not raise TypeError
JsonEncodable(obj) ==
    CASE obj.kind = "str" -> TRUE
      [] obj.kind = "dict" -> \A k \in DOMAIN obj.of : JsonEncodable(obj.of[k])
      [] obj.kind = "list" -> \A i \in 1..Len(obj.of) : JsonEncodable(obj.of[i])
      [] OTHER -> FALSE

RECURSIVE JsonText(_)
RECURSIVE JsonMembers(_, _)
RECURSIVE JsonElements(_)
\* json.dumps(obj) as the str it returns
JsonText(obj) ==
    CASE obj.kind = "str" -> "\"" \o obj.of \o "\""
      [] obj.kind = "dict" -> "{" \o JsonMembers(obj.of, DOMAIN obj.of) \o "}"
      [] obj.kind = "list" -> "[" \o JsonElements(obj.of) \o "]"

JsonMembers(m, ks) ==
    IF ks = {} THEN ""
    ELSE LET k == CHOOSE j \in ks : TRUE
             member == "\"" \o k \o "\": " \o JsonText(m[k])
         IN IF ks = {k} THEN member
            ELSE member \o ", " \o JsonMembers(m, ks \ {k})

JsonElements(l) ==
    IF l = <<>> THEN ""
    ELSE IF Len(l) = 1 THEN JsonText(l[1])
    ELSE JsonText(l[1]) \o ", " \o JsonElements(Tail(l))

(***************************************************************************)
(* Bounds of the model.                                                    *)
(***************************************************************************)
\* parts in all the contents of one LlmRequest together
MaxTotalParts == 4

\* nesting of a tool's response value
MaxDepth == 2

(***************************************************************************)
(* The request's contents (google.genai types.Content / types.Part).       *)
(* A Part holds exactly one of text, function_call, function_response.     *)
(***************************************************************************)
Roles == {"user", "model", "tool"}
Texts == {"a", ""}
CallIds == {"c1", None}
ToolNames == {"f"}
ToolArgs == {"{}"}
Responses == {Str("ok")}

TextPart(t) ==
    [kind |-> "text", text |-> t, id |-> None, name |-> None, data |-> None]
FunctionCallPart(id, name, args) ==
    [kind |-> "function_call", text |-> None, id |-> id, name |-> name, data |-> args]
FunctionResponsePart(id, name, resp) ==
    [kind |-> "function_response", text |-> None, id |-> id, name |-> name, data |-> resp]

Parts ==
    {TextPart(t) : t \in Texts}
    \cup {FunctionCallPart(i, nm, a) : i \in CallIds, nm \in ToolNames, a \in ToolArgs}
    \cup {FunctionResponsePart(i, nm, r) : i \in CallIds, nm \in ToolNames, r \in Responses}

\* the lists of at most k parts
PartLists(k) == UNION {[1..j -> Parts] : j \in 0..k}

\* the contents of at most k parts
Contents(k) == [role : Roles, parts : PartLists(k)]

NoContent == [role |-> None, parts |-> <<>>]

(***************************************************************************)
(* Backend messages (Python dicts).  A key that a dict does not hold is    *)
(* modelled by a flag (has_tool_calls) or by None (tool_call_id).          *)
(***************************************************************************)
TextMessage(role, text) ==
    [role |-> role, content |-> text, has_tool_calls |-> FALSE,
     tool_calls |-> <<>>, tool_call_id |-> None]
ToolCallMessage(role, text, calls) ==
    [role |-> role, content |-> text, has_tool_calls |-> TRUE,
     tool_calls |-> calls, tool_call_id |-> None]
ToolMessage(id, text) ==
    [role |-> "tool", content |-> text, has_tool_calls |-> FALSE,
     tool_calls |-> <<>>, tool_call_id |-> id]

VARIABLES
    \* ---- LiteLlm.generate_content_async
    content,            \* the loop variable of the conversion loop
    n_parts,            \* parts of the contents consumed so far
    messages,           \* the messages emitted by the conversion loop
    tool_response_ids,  \* the set collected by the repair pass
    cleaned_messages,   \* the list the repair pass builds and the call sends
    rpc,                \* position in generate_content_async
    \* ---- PostgresSessionService and its callers
    db,                 \* the adk_sessions table: primary key -> row
    pc,                 \* per process: position in the call in progress
    op,                 \* per process: the call in progress, or the last one
    ret,                \* per process: what the last finished call returned
    handle,             \* per process: the Session object the caller holds
    record,             \* per process: the row read by the call's query
    attempt,            \* per process: loop variable of the retry wrapper
    disposals,          \* per process: engine.dispose() calls of the call
    exc,                \* per process: the exception the wrapper caught last
    caller,             \* the process that started the latest call
    n_ops,              \* calls started so far
    \* ---- _serialize_event / _deserialize_event on one Event
    an_event,           \* the Event handed to _serialize_event
    its_dict,           \* the dict _serialize_event returned
    restored,           \* the Event _deserialize_event returned
    cpc,                \* position in the round trip
    \* ---- chat / stream_with_persistence / stream_generator (one turn)
    mongo,              \* db.chat_sessions: _id -> the messages of the document
    request,            \* the ChatRequest of the turn
    adk_session_id,     \* chat's session_id, stream_generator's adk_session_id
    tpc,                \* position in the turn
    frames,             \* the chunks delivered to the caller, in order
    full_response,      \* stream_with_persistence's accumulator
    existing_session,   \* stream_generator's existing_session
    mongo_messages,     \* mongo_session["messages"] read by the hydration
    msg_idx,            \* the hydration loop's idx
    last_response,      \* the latest response of the model in the run
    outcome,            \* how stream_generator came to its end
    saved,              \* the turn's writes to db.chat_sessions, in order
    appended,           \* the events the run appended to the session, in order
    \* ---- stream_generator's session setup, run by several processes
    setup_pc,           \* per process: position in the setup
    setup_idx,          \* per process: the hydration loop's idx
    \* ---- LiteLlm.generate_content_async: the completion call
    tools,              \* llm_request.config.tools
    stream,             \* the stream argument
    use_stream,         \* stream and not openai_tools, FALSE until computed
    yielded,            \* the responses the generator has yielded, in order
    n_chunks,           \* chunks of the backend's stream consumed so far
    failure,            \* the exception raised in the try block, if any
    gpc                 \* position in the try block

recon_vars ==
    <<content, n_parts, messages, tool_response_ids, cleaned_messages, rpc>>

\* the locals of the service calls in progress
call_vars ==
    <<pc, op, ret, handle, record, attempt, disposals, exc, caller, n_ops>>

store_vars == <<db, call_vars>>

codec_vars == <<an_event, its_dict, restored, cpc>>

\* the locals of one chat turn
turn_locals ==
    <<request, adk_session_id, tpc, frames, full_response, existing_session,
      mongo_messages, msg_idx, last_response, outcome, saved, appended>>

turn_vars == <<mongo, turn_locals>>

\* the locals of the setups that run side by side
setup_vars == <<setup_pc, setup_idx>>

\* the locals of the completion call
gen_vars == <<tools, stream, use_stream, yielded, n_chunks, failure, gpc>>

vars == <<recon_vars, store_vars, codec_vars, turn_vars, setup_vars, gen_vars>>

\* what a step of one component leaves alone
other_than_recon == <<store_vars, codec_vars, turn_vars, setup_vars,
     gen_vars>>
other_than_store == <<recon_vars, codec_vars, turn_vars, setup_vars,
     gen_vars>>
other_than_codec == <<recon_vars, store_vars, turn_vars, setup_vars,
     gen_vars>>
\* (a turn reads and writes the adk_sessions table)
other_than_turn == <<recon_vars, call_vars, codec_vars, setup_vars,
     gen_vars>>

(***************************************************************************)
(* generate_content_async: content conversion                              *)
(***************************************************************************)
\* mutant: only the model's contents are the assistant's
BackendRoleModelOnly(c) == IF c.role = "model" THEN "assistant" ELSE "user"

\* role = "user" if content.role == "user" else "assistant"
BackendRole(c) == IF c.role = "user" THEN "user" ELSE "assistant"

HasText(p) == p.kind = "text" /\ Truthy(p.text)
HasFunctionCall(p) == ~HasText(p) /\ p.kind = "function_call"
HasFunctionResponse(p) ==
    ~HasText(p) /\ ~HasFunctionCall(p) /\ p.kind = "function_response"

RECURSIVE ContentTextReversed(_)
\* mutant: each text is put in front of the text collected so far
ContentTextReversed(ps) ==
    IF ps = <<>> THEN ""
    ELSE LET p == ps[Len(ps)]
             front == ContentTextReversed(SubSeq(ps, 1, Len(ps) - 1))
         IN IF HasText(p) THEN p.text \o front ELSE front

RECURSIVE ContentText(_)
\* content_text: the concatenation of the truthy text parts
ContentText(ps) ==
    IF ps = <<>> THEN ""
    ELSE LET p == ps[Len(ps)]
             front == ContentText(SubSeq(ps, 1, Len(ps) - 1))
         IN IF HasText(p) THEN front \o p.text ELSE front

ToolCallOf(p) ==
    [id |-> OrElse(p.id, "call_unknown"),
     name |-> p.name,
     arguments |-> JsonDumps(p.data)]

RECURSIVE SafeSerializeShallow(_)
\* mutant: dicts and lists are returned as they are
SafeSerializeShallow(obj) ==
    IF HasValue(obj) THEN SafeSerializeShallow(obj.of["value"])
    ELSE IF obj.kind \in {"dict", "list", "str"} THEN obj
    ELSE IF HasDict(obj) THEN SafeSerializeShallow(PublicDict(obj))
    ELSE PyStr(obj)

RECURSIVE SafeSerialize(_)
SafeSerialize(obj) ==
    IF HasValue(obj) THEN SafeSerialize(obj.of["value"])
    ELSE IF obj.kind = "dict"
    THEN Dict([k \in DOMAIN obj.of |-> SafeSerialize(obj.of[k])])
    ELSE IF obj.kind = "list"
    THEN List([i \in 1..Len(obj.of) |-> SafeSerialize(obj.of[i])])
    ELSE IF obj.kind = "str" THEN obj
    ELSE IF HasDict(obj) THEN SafeSerialize(PublicDict(obj))
    ELSE PyStr(obj)

\* the content of the except branch of the serialization
SerializeFailureText(resp) ==
    "Error: Could not serialize response - " \o PyStr(resp).of

\* json.dumps(serialized_data) unless serialized_data is already a str; the
\* error text when json.dumps raises
ResponseContent(resp) ==
    LET serialized_data == SafeSerialize(resp)
    IN IF serialized_data.kind = "str" THEN serialized_data.of
       ELSE IF JsonEncodable(serialized_data) THEN JsonText(serialized_data)
       ELSE SerializeFailureText(resp)

ToolResponseOf(p) ==
    ToolMessage(OrElse(p.id, "call_unknown"), ResponseContent(p.data))

ToolCalls(ps) ==
    LET idx == {i \in 1..Len(ps) : HasFunctionCall(ps[i])}
        sel == SelectSeqIdx(ps, idx)
    IN [i \in 1..Len(sel) |-> ToolCallOf(sel[i])]

\* mutant: the responses of one content are merged into its first one
ToolResponsesFirstOnly(ps) ==
    LET idx == {i \in 1..Len(ps) : HasFunctionResponse(ps[i])}
        sel == SelectSeqIdx(ps, idx)
    IN IF sel = <<>> THEN <<>> ELSE <<ToolResponseOf(sel[1])>>

ToolResponses(ps) ==
    LET idx == {i \in 1..Len(ps) : HasFunctionResponse(ps[i])}
        sel == SelectSeqIdx(ps, idx)
    IN [i \in 1..Len(sel) |-> ToolResponseOf(sel[i])]

\* the messages one content adds to the list
MessagesOf(c) ==
    LET content_text == ContentText(c.parts)
        tool_calls == ToolCalls(c.parts)
        tool_responses == ToolResponses(c.parts)
    IN IF tool_responses # <<>> THEN tool_responses
       ELSE IF tool_calls # <<>>
            THEN <<ToolCallMessage(BackendRole(c),
                                   OrElse(content_text, None), tool_calls)>>
       ELSE IF Truthy(content_text)
            THEN <<TextMessage(BackendRole(c), content_text)>>
       ELSE <<>>

\* one iteration of `for content in llm_request.contents`
ConvertContent ==
    /\ rpc = "convert"
    /\ \E c \in Contents(MaxTotalParts - n_parts) :
          /\ content' = c
          /\ messages' = messages \o MessagesOf(c)
          /\ n_parts' = n_parts + Len(c.parts)
    /\ UNCHANGED <<tool_response_ids, cleaned_messages, rpc, other_than_recon>>

\* contents whose texts differ from one another, with or without a tool call
Words == {"a", "b", ""}
WordParts ==
    {TextPart(t) : t \in Words} \cup {FunctionCallPart("c1", "f", "{}")}
WordContents(k) ==
    [role : {"user", "model"}, parts : UNION {[1..j -> WordParts] : j \in 0..k}]

\* one iteration of `for content in llm_request.contents` on such a content
ConvertWordContent ==
    /\ rpc = "convert"
    /\ \E c \in WordContents(MaxTotalParts - n_parts) :
          /\ content' = c
          /\ messages' = messages \o MessagesOf(c)
          /\ n_parts' = n_parts + Len(c.parts)
    /\ UNCHANGED <<tool_response_ids, cleaned_messages, rpc, other_than_recon>>

(***************************************************************************)
(* generate_content_async: repair pass                                     *)
(***************************************************************************)
ToolResponseIds(msgs) ==
    {msgs[i].tool_call_id :
        i \in {j \in 1..Len(msgs) :
                  msgs[j].role = "tool" /\ Truthy(msgs[j].tool_call_id)}}

\* the conversion loop ends; the first loop of the repair pass
CollectToolResponseIds ==
    /\ rpc = "convert"
    /\ tool_response_ids' = ToolResponseIds(messages)
    /\ rpc' = "clean"
    /\ UNCHANGED <<content, n_parts, messages, cleaned_messages, other_than_recon>>

\* mutant: the filter keeps every tool call
FilteredToolCallsKeepAll(msg, ids) == msg.tool_calls

FilteredToolCalls(msg, ids) ==
    SelectSeqIdx(msg.tool_calls,
                 {i \in 1..Len(msg.tool_calls) : msg.tool_calls[i].id \in ids})

\* mutant: a message none of whose tool calls remain is dropped, text or not
CleanMessageDropsText(msg, ids) ==
    IF msg.role = "assistant" /\ msg.has_tool_calls
    THEN LET filtered_tool_calls == FilteredToolCalls(msg, ids)
         IN IF filtered_tool_calls # <<>>
            THEN <<[msg EXCEPT !.tool_calls = filtered_tool_calls]>>
            ELSE <<>>
    ELSE <<msg>>

\* what the second loop appends to cleaned_messages for one message
CleanMessage(msg, ids) ==
    IF msg.role = "assistant" /\ msg.has_tool_calls
    THEN LET filtered_tool_calls == FilteredToolCalls(msg, ids)
         IN IF filtered_tool_calls # <<>>
            THEN <<[msg EXCEPT !.tool_calls = filtered_tool_calls]>>
            ELSE IF Truthy(msg.content)
                 THEN <<[msg EXCEPT !.has_tool_calls = FALSE, !.tool_calls = <<>>]>>
                 ELSE <<>>
    ELSE <<msg>>

RECURSIVE CleanMessages(_, _)
CleanMessages(msgs, ids) ==
    IF msgs = <<>> THEN <<>>
    ELSE CleanMessages(SubSeq(msgs, 1, Len(msgs) - 1), ids)
            \o CleanMessage(msgs[Len(msgs)], ids)

\* the second loop of the repair pass; cleaned_messages is the list sent
RepairPass ==
    /\ rpc = "clean"
    /\ cleaned_messages' = CleanMessages(messages, tool_response_ids)
    /\ rpc' = "done"
    /\ UNCHANGED <<content, n_parts, messages, tool_response_ids, other_than_recon>>

(***************************************************************************)
(* Events (google.adk Event) and the Event codec of PostgresSessionService *)
(***************************************************************************)
Event(author, c) == [author |-> author, content |-> c]
Content(role, parts) == [role |-> role, parts |-> parts]

\* an Event without content (content=None)
NoEvent == Event(None, NoContent)

\* part_dict: the keys it holds are named by tag ("empty" is {}), and has_id
\* says whether the function_call dict holds the key 'id'
PartDict(tag, text, has_id, id, name, data) ==
    [tag |-> tag, text |-> text, has_id |-> has_id, id |-> id,
     name |-> name, data |-> data]

\* mutant: the value is stored as the part holds it
SerializeResponseAsIs(response_data) == response_data

\* the response stored for a function_response part: a Result object is
\* replaced by its value, an object by the dict of its public attributes,
\* and what json.dumps rejects by its str()
SerializeResponse(response_data) ==
    LET unwrapped == IF HasValue(response_data) THEN response_data.of["value"]
                     ELSE response_data
        flattened == IF HasDict(unwrapped) THEN PublicDict(unwrapped)
                     ELSE unwrapped
    IN IF JsonEncodable(flattened) THEN flattened ELSE PyStr(flattened)

SerializePart(part) ==
    IF HasText(part)
    THEN PartDict("text", part.text, FALSE, None, None, None)
    ELSE IF HasFunctionCall(part)
    THEN PartDict("function_call", None, Truthy(part.id),
                  IF Truthy(part.id) THEN part.id ELSE None,
                  part.name, part.data)
    ELSE IF HasFunctionResponse(part)
    THEN PartDict("function_response", None, TRUE, part.id, part.name,
                  SerializeResponse(part.data))
    ELSE PartDict("empty", None, FALSE, None, None, None)

SerializeEvent(event) ==
    [author |-> event.author,
     content |->
        IF event.content # NoContent
        THEN [role |-> event.content.role,
              parts |-> [i \in 1..Len(event.content.parts) |->
                            SerializePart(event.content.parts[i])]]
        ELSE NoContent]

RECURSIVE DeserializeParts(_)
DeserializeParts(pds) ==
    IF pds = <<>> THEN <<>>
    ELSE LET pd == pds[Len(pds)]
             front == DeserializeParts(SubSeq(pds, 1, Len(pds) - 1))
         IN IF pd.tag = "text"
            THEN Append(front, TextPart(pd.text))
            ELSE IF pd.tag = "function_call"
            THEN Append(front,
                        FunctionCallPart(IF pd.has_id THEN pd.id ELSE None,
                                         pd.name, pd.data))
            ELSE IF pd.tag = "function_response"
            THEN Append(front, FunctionResponsePart(pd.id, pd.name, pd.data))
            ELSE front

DeserializeEvent(event_dict) ==
    Event(event_dict.author,
          IF event_dict.content # NoContent
          THEN Content(event_dict.content.role,
                       DeserializeParts(event_dict.content.parts))
          ELSE NoContent)

\* json.loads of a json.dumps
JsonLoads(j) == j[2]

\* parts of one Event handed to the codec
MaxEventParts == 2

Authors == {"user", "orchestrator"}
ContentRoles == {"user", "model"}

\* the Events built from the Part union, and the Events without content
CodecEvents ==
    {Event(a, Content(r, ps)) :
        a \in Authors, r \in ContentRoles, ps \in PartLists(MaxEventParts)}
    \cup {Event(a, NoContent) : a \in Authors}

\* event_dict = self._serialize_event(event)
SerializeStep ==
    /\ cpc = "event"
    /\ its_dict' = SerializeEvent(an_event)
    /\ cpc' = "event_dict"
    /\ UNCHANGED <<an_event, restored, other_than_codec>>

\* self._deserialize_event(event_dict)
DeserializeStep ==
    /\ cpc = "event_dict"
    /\ restored' = DeserializeEvent(its_dict)
    /\ cpc' = "restored"
    /\ UNCHANGED <<an_event, its_dict, other_than_codec>>

(***************************************************************************)
(* Tool results on their way into the session and into the request         *)
(***************************************************************************)
\* the functions from some of the keys to the values
Maps(keys, vals) == UNION {[ks -> vals] : ks \in SUBSET keys}

\* no attribute of the name
Absent == [kind |-> "absent", of |-> ""]

\* obj.__dict__ of an object with the attributes given: `value` (a Result
\* object has it), a public `x` and a private `_p`
Attrs(value, x, p) ==
    [k \in {j \in {"value", "x", "_p"} :
               \/ j = "value" /\ value # Absent
               \/ j = "x" /\ x # Absent
               \/ j = "_p" /\ p # Absent} |->
        CASE k = "value" -> value [] k = "x" -> x [] k = "_p" -> p]

Attributes(vals, atoms) ==
    {Attrs(value, x, p) : value \in vals \cup {Absent},
                          x \in atoms \cup {Absent},
                          p \in {Str("secret"), Absent}}

RECURSIVE Values(_)
\* the values nested at most d deep
Values(d) ==
    LET atoms == {Str("ok"), Opaque}
    IN IF d = 0 THEN atoms
       ELSE LET vals == Values(d - 1)
            IN atoms
               \cup {Dict(m) : m \in Maps({"k"}, vals)}
               \cup {List(l) : l \in {<<>>} \cup {<<v>> : v \in vals}
                                     \cup {<<v, w>> : v \in vals, w \in atoms}}
               \cup {Object(a) : a \in Attributes(vals, atoms)}

\* the events of a tool's results: one response, alone or before another
ResponseEvents ==
    {Event("orchestrator",
           Content("user", <<FunctionResponsePart("c1", "f", v)>> \o rest)) :
        v \in Values(MaxDepth),
        rest \in {<<>>, <<FunctionResponsePart(None, "f", Str("ok"))>>}}

\* the conversion loop on the content of the event, as the run holds it or
\* as the store gave it back
ConvertEventContent ==
    /\ rpc = "convert"
    /\ n_parts = 0
    /\ \E c \in {an_event.content}
                 \cup (IF cpc = "restored" THEN {restored.content} ELSE {}) :
          /\ content' = c
          /\ messages' = messages \o MessagesOf(c)
          /\ n_parts' = n_parts + Len(c.parts)
    /\ UNCHANGED <<tool_response_ids, cleaned_messages, rpc, other_than_recon>>

(***************************************************************************)
(* The adk_sessions table and the Session objects                          *)
(***************************************************************************)
\* calls started in one run
MaxOps == 4

\* the independent server processes
Procs == {"p1", "p2"}

\* (app_name, user_id, session_id)
Triple(app, user, sid) == [app_name |-> app, user_id |-> user, session_id |-> sid]
Triples ==
    {Triple("agents", "u1", "s1"), Triple("agents", "u1", "s2")}
NoTriple == Triple(None, None, None)

\* the events callers append
StoreEvents ==
    {Event("user", Content("user", <<TextPart("a")>>)),
     Event("user", Content("user", <<TextPart("")>>))}

MakeSessionKey(app_name, user_id, session_id) ==
    app_name \o ":" \o user_id \o ":" \o session_id

KeyOf(t) == MakeSessionKey(t.app_name, t.user_id, t.session_id)

\* a SessionRecord row (created_at and updated_at carry no behaviour here)
Row(t, events_json) ==
    [app_name |-> t.app_name, user_id |-> t.user_id,
     session_id |-> t.session_id, events_json |-> events_json]
NoRow == Row(NoTriple, JsonDumps(<<>>))

\* a Session object
Session(app_name, user_id, id, events) ==
    [app_name |-> app_name, user_id |-> user_id, id |-> id, events |-> events]
NoSession == Session(None, None, None, <<>>)

\* [self._deserialize_event(e) for e in json.loads(record.events_json)]
EventsOfRow(row) ==
    LET l == JsonLoads(row.events_json)
    IN [i \in 1..Len(l) |-> DeserializeEvent(l[i])]

\* exceptions: the class and the words of str(e)
Error(cls, msg) == [cls |-> cls, msg |-> msg]
NoError == Error(None, <<>>)

\* what a call returned: a Session, None, or a raised exception
Returned(s) == [kind |-> "Session", session |-> s, error |-> NoError]
ReturnedNone == [kind |-> "None", session |-> NoSession, error |-> NoError]
Raised(e) == [kind |-> "raise", session |-> NoSession, error |-> e]
NoReturn == [kind |-> "pending", session |-> NoSession, error |-> NoError]

Call(name, t, event) == [name |-> name, triple |-> t, event |-> event]
NoCall == Call(None, NoTriple, NoEvent)

\* a call starts: the caller is between calls and the run has calls left
Begin(p) == pc[p] = "idle" /\ n_ops < MaxOps

Started(p) == caller' = p /\ n_ops' = n_ops + 1

\* a call that does not go through the retry wrapper has none of its locals
NoRetryLocals(p) ==
    /\ attempt' = [attempt EXCEPT ![p] = 0]
    /\ disposals' = [disposals EXCEPT ![p] = 0]
    /\ exc' = [exc EXCEPT ![p] = NoError]

(***************************************************************************)
(* create_session                                                          *)
(***************************************************************************)
\* mutant: no query for an existing row, the INSERT is issued at once
CreateSessionNoCheck(p) ==
    /\ Begin(p)
    /\ \E t \in Triples :
          op' = [op EXCEPT ![p] = Call("create_session", t, NoEvent)]
    /\ ret' = [ret EXCEPT ![p] = NoReturn]
    /\ pc' = [pc EXCEPT ![p] = "create_commit"]
    /\ Started(p)
    /\ NoRetryLocals(p)
    /\ UNCHANGED <<db, handle, record, other_than_store>>

\* the query and, when the row exists, the return of the existing session
CreateSession(p) ==
    /\ Begin(p)
    /\ \E t \in Triples :
          LET session_key == KeyOf(t)
          IN /\ op' = [op EXCEPT ![p] = Call("create_session", t, NoEvent)]
             /\ IF session_key \in DOMAIN db
                THEN LET s == Session(t.app_name, t.user_id, t.session_id,
                                      EventsOfRow(db[session_key]))
                     IN /\ ret' = [ret EXCEPT ![p] = Returned(s)]
                        /\ handle' = [handle EXCEPT ![p] = s]
                        /\ pc' = pc
                ELSE /\ ret' = [ret EXCEPT ![p] = NoReturn]
                     /\ pc' = [pc EXCEPT ![p] = "create_commit"]
                     /\ handle' = handle
    /\ Started(p)
    /\ NoRetryLocals(p)
    /\ UNCHANGED <<db, record, other_than_store>>

\* db.add(record); db.commit(): the INSERT fails on the primary key when
\* another process inserted the row after this call's query
CreateCommit(p) ==
    /\ pc[p] = "create_commit"
    /\ LET t == op[p].triple
           session_key == KeyOf(t)
       IN IF session_key \in DOMAIN db
          THEN /\ ret' = [ret EXCEPT ![p] =
                            Raised(Error("IntegrityError",
                                         <<"duplicate", "key", "value">>))]
               /\ UNCHANGED <<db, handle>>
          ELSE LET s == Session(t.app_name, t.user_id, t.session_id, <<>>)
               IN /\ db' = (session_key :> Row(t, JsonDumps(<<>>))) @@ db
                  /\ ret' = [ret EXCEPT ![p] = Returned(s)]
                  /\ handle' = [handle EXCEPT ![p] = s]
    /\ pc' = [pc EXCEPT ![p] = "idle"]
    /\ UNCHANGED <<op, record, attempt, disposals, exc, caller, n_ops, other_than_store>>

(***************************************************************************)
(* get_session and _retry_on_connection_error                              *)
(***************************************************************************)
max_retries == 3

\* str(e).lower(), word by word
Lower(w) ==
    CASE w = "Connection" -> "connection"
      [] w = "SSL" -> "ssl"
      [] OTHER -> w

LowerAll(msg) == [i \in 1..Len(msg) |-> Lower(msg[i])]

\* `pat in msg`
Contains(msg, pat) ==
    \E i \in 0..(Len(msg) - Len(pat)) :
        \A j \in 1..Len(pat) : msg[i + j] = pat[j]

IsOperationalError(e) == e.cls = "OperationalError"

MentionsConnection(e) ==
    \/ Contains(e.msg, <<"SSL", "connection", "has", "been", "closed">>)
    \/ Contains(LowerAll(e.msg), <<"connection">>)

\* the faults an attempt can raise
Faults ==
    {Error("OperationalError",
           <<"SSL", "connection", "has", "been", "closed", "unexpectedly">>),
     Error("OperationalError", <<"Connection", "refused">>),
     Error("OperationalError", <<"could", "not", "translate", "host", "name">>),
     Error("InterfaceError", <<"connection", "already", "closed">>)}

\* _get_session_inner when its query succeeds
GetSessionInner(rows, t) ==
    LET session_key == KeyOf(t)
    IN IF session_key \notin DOMAIN rows
       THEN ReturnedNone
       ELSE Returned(Session(t.app_name, t.user_id, t.session_id,
                             EventsOfRow(rows[session_key])))

\* mutant: no error is retried
RetriesNever(e, a) == FALSE

\* mutant: the last attempt is retried too
RetriesUnbounded(e, a) == IsOperationalError(e) /\ MentionsConnection(e)

\* mutant: every exception is retried
RetriesAnyError(e, a) == a < max_retries - 1

\* does the wrapper go round again after error e of attempt a?
Retries(e, a) ==
    IsOperationalError(e) /\ MentionsConnection(e) /\ a < max_retries - 1

GetSession(p) ==
    /\ Begin(p)
    /\ \E t \in Triples :
          op' = [op EXCEPT ![p] = Call("get_session", t, NoEvent)]
    /\ ret' = [ret EXCEPT ![p] = NoReturn]
    /\ attempt' = [attempt EXCEPT ![p] = 0]
    /\ disposals' = [disposals EXCEPT ![p] = 0]
    /\ exc' = [exc EXCEPT ![p] = NoError]
    /\ pc' = [pc EXCEPT ![p] = "get_attempt"]
    /\ Started(p)
    /\ UNCHANGED <<db, handle, record, other_than_store>>

\* one attempt that completes: return func()
GetAttemptReturns(p) ==
    /\ pc[p] = "get_attempt"
    /\ LET r == GetSessionInner(db, op[p].triple)
       IN /\ ret' = [ret EXCEPT ![p] = r]
          /\ handle' = IF r.kind = "Session"
                       THEN [handle EXCEPT ![p] = r.session]
                       ELSE handle
    /\ exc' = [exc EXCEPT ![p] = NoError]
    /\ pc' = [pc EXCEPT ![p] = "idle"]
    /\ UNCHANGED <<db, op, record, attempt, disposals, caller, n_ops, other_than_store>>

\* one attempt that raises e: sleep, dispose and continue, or raise
GetAttemptRaises(p) ==
    /\ pc[p] = "get_attempt"
    /\ \E e \in Faults :
          /\ exc' = [exc EXCEPT ![p] = e]
          /\ IF Retries(e, attempt[p])
             THEN /\ disposals' = [disposals EXCEPT ![p] = @ + 1]
                  /\ attempt' = [attempt EXCEPT ![p] = @ + 1]
                  /\ UNCHANGED <<ret, pc>>
             ELSE /\ ret' = [ret EXCEPT ![p] = Raised(e)]
                  /\ pc' = [pc EXCEPT ![p] = "idle"]
                  /\ UNCHANGED <<attempt, disposals>>
    /\ UNCHANGED <<db, op, handle, record, caller, n_ops, other_than_store>>

(***************************************************************************)
(* delete_session                                                          *)
(***************************************************************************)
DeleteSession(p) ==
    /\ Begin(p)
    /\ \E t \in Triples :
          /\ op' = [op EXCEPT ![p] = Call("delete_session", t, NoEvent)]
          /\ IF KeyOf(t) \in DOMAIN db
             THEN /\ pc' = [pc EXCEPT ![p] = "delete_commit"]
                  /\ ret' = [ret EXCEPT ![p] = NoReturn]
             ELSE /\ pc' = pc
                  /\ ret' = [ret EXCEPT ![p] = ReturnedNone]
    /\ Started(p)
    /\ NoRetryLocals(p)
    /\ UNCHANGED <<db, handle, record, other_than_store>>

\* mutant: the DELETE matches the rows of the user, not the row of the key
DeleteCommitByUser(p) ==
    /\ pc[p] = "delete_commit"
    /\ LET t == op[p].triple
       IN db' = [k \in {j \in DOMAIN db : db[j].app_name # t.app_name
                                          \/ db[j].user_id # t.user_id}
                    |-> db[k]]
    /\ ret' = [ret EXCEPT ![p] = ReturnedNone]
    /\ pc' = [pc EXCEPT ![p] = "idle"]
    /\ UNCHANGED <<op, handle, record, attempt, disposals, exc, caller, n_ops, other_than_store>>

\* db.delete(record); db.commit(): a row that is gone already matches nothing
DeleteCommit(p) ==
    /\ pc[p] = "delete_commit"
    /\ LET session_key == KeyOf(op[p].triple)
       IN db' = [k \in DOMAIN db \ {session_key} |-> db[k]]
    /\ ret' = [ret EXCEPT ![p] = ReturnedNone]
    /\ pc' = [pc EXCEPT ![p] = "idle"]
    /\ UNCHANGED <<op, handle, record, attempt, disposals, exc, caller, n_ops, other_than_store>>

(***************************************************************************)
(* append_event                                                            *)
(***************************************************************************)
\* mutant: a missing row is created with the event instead of raising
AppendEventUpsert(p) ==
    /\ Begin(p)
    /\ handle[p] # NoSession
    /\ \E event \in StoreEvents :
          LET session == handle[p]
              t == Triple(session.app_name, session.user_id, session.id)
              session_key == KeyOf(t)
          IN /\ op' = [op EXCEPT ![p] = Call("append_event", t, event)]
             /\ IF session_key \notin DOMAIN db
                THEN /\ db' = (session_key :>
                                 Row(t, JsonDumps(<<SerializeEvent(event)>>))) @@ db
                     /\ ret' = [ret EXCEPT ![p] = ReturnedNone]
                     /\ UNCHANGED <<pc, record>>
                ELSE /\ ret' = [ret EXCEPT ![p] = NoReturn]
                     /\ record' = [record EXCEPT ![p] = db[session_key]]
                     /\ pc' = [pc EXCEPT ![p] = "append_commit"]
                     /\ db' = db
    /\ Started(p)
    /\ NoRetryLocals(p)
    /\ UNCHANGED <<handle, other_than_store>>

\* the query: raise ValueError when there is no row, else keep the row read
AppendEvent(p) ==
    /\ Begin(p)
    /\ handle[p] # NoSession
    /\ \E event \in StoreEvents :
          LET session == handle[p]
              t == Triple(session.app_name, session.user_id, session.id)
              session_key == KeyOf(t)
          IN /\ op' = [op EXCEPT ![p] = Call("append_event", t, event)]
             /\ IF session_key \notin DOMAIN db
                THEN /\ ret' = [ret EXCEPT ![p] =
                                  Raised(Error("ValueError",
                                               <<"Session", "not", "found">>))]
                     /\ UNCHANGED <<pc, record>>
                ELSE /\ ret' = [ret EXCEPT ![p] = NoReturn]
                     /\ record' = [record EXCEPT ![p] = db[session_key]]
                     /\ pc' = [pc EXCEPT ![p] = "append_commit"]
    /\ Started(p)
    /\ NoRetryLocals(p)
    /\ UNCHANGED <<db, handle, other_than_store>>

\* mutant: the new event is put in front of the list read
AppendedJsonAtFront(row, event) ==
    JsonDumps(<<SerializeEvent(event)>> \o JsonLoads(row.events_json))

\* the events_json the call writes: the list it read plus the new event
AppendedJson(row, event) ==
    JsonDumps(Append(JsonLoads(row.events_json), SerializeEvent(event)))

\* mutant: the event is appended to the list stored at the time of the UPDATE
UpdatedRowOfStored(read, stored, event) ==
    [stored EXCEPT !.events_json = AppendedJson(stored, event)]

\* the row the commit's UPDATE leaves, given the row this call read and the
\* row that is stored now
UpdatedRow(read, stored, event) ==
    [read EXCEPT !.events_json = AppendedJson(read, event)]

\* mutant: the commit leaves the caller's Session object as it was
AppendCommitKeepsHandle(p) ==
    /\ pc[p] = "append_commit"
    /\ LET session_key == KeyOf(op[p].triple)
       IN IF session_key \notin DOMAIN db
          THEN /\ ret' = [ret EXCEPT ![p] =
                            Raised(Error("StaleDataError",
                                         <<"expected", "to", "update", "1", "row">>))]
               /\ UNCHANGED db
          ELSE /\ db' = [db EXCEPT ![session_key] =
                            UpdatedRow(record[p], db[session_key], op[p].event)]
               /\ ret' = [ret EXCEPT ![p] = ReturnedNone]
    /\ pc' = [pc EXCEPT ![p] = "idle"]
    /\ UNCHANGED <<handle, op, record, attempt, disposals, exc, caller, n_ops,
                   other_than_store>>

\* db.commit(): the UPDATE of the row read; it matches nothing when the row
\* was deleted after the query, and the ORM raises
AppendCommit(p) ==
    /\ pc[p] = "append_commit"
    /\ LET session_key == KeyOf(op[p].triple)
       IN IF session_key \notin DOMAIN db
          THEN /\ ret' = [ret EXCEPT ![p] =
                            Raised(Error("StaleDataError",
                                         <<"expected", "to", "update", "1", "row">>))]
               /\ UNCHANGED <<db, handle>>
          ELSE /\ db' = [db EXCEPT ![session_key] =
                            UpdatedRow(record[p], db[session_key], op[p].event)]
               /\ handle' = [handle EXCEPT ![p].events = Append(@, op[p].event)]
               /\ ret' = [ret EXCEPT ![p] = ReturnedNone]
    /\ pc' = [pc EXCEPT ![p] = "idle"]
    /\ UNCHANGED <<op, record, attempt, disposals, exc, caller, n_ops, other_than_store>>

(***************************************************************************)
(* list_sessions                                                           *)
(***************************************************************************)
\* what list_sessions returned: the Sessions, in the order the query gave
\* the rows, which the code leaves to the database
ReturnedList(sessions) ==
    [kind |-> "list", session |-> NoSession, error |-> NoError,
     sessions |-> sessions]

\* mutant: the filter on app_name is missing
ListedKeysByUser(rows, app_name, user_id) ==
    {k \in DOMAIN rows : rows[k].user_id = user_id}

\* db.query(SessionRecord).filter_by(app_name=..., user_id=...).all()
ListedKeys(rows, app_name, user_id) ==
    {k \in DOMAIN rows :
        rows[k].app_name = app_name /\ rows[k].user_id = user_id}

\* the (app_name, user_id, session_id) triples of the rows of the table
ListTriples ==
    {Triple("agents", "u1", "s1"), Triple("agents", "u1", "s2"),
     Triple("agents", "u2", "s1"), Triple("other", "u1", "s1")}

ListSessions(p) ==
    /\ Begin(p)
    /\ \E t \in ListTriples :
          LET records == ListedKeys(db, t.app_name, t.user_id)
              sessions ==
                 {Session(db[k].app_name, db[k].user_id, db[k].session_id,
                          EventsOfRow(db[k])) : k \in records}
          IN /\ op' = [op EXCEPT ![p] =
                         Call("list_sessions",
                              Triple(t.app_name, t.user_id, None), NoEvent)]
             /\ ret' = [ret EXCEPT ![p] = ReturnedList(sessions)]
    /\ Started(p)
    /\ NoRetryLocals(p)
    /\ UNCHANGED <<db, pc, handle, record, other_than_store>>

(***************************************************************************)
(* The secondary store (src/database.py, db.chat_sessions)                 *)
(***************************************************************************)
\* the ObjectIds insert_one hands out
SessionIds == {"s1", "s2"}

\* a message of a chat_sessions document (its timestamp carries no behaviour)
Message(role, text) == [role |-> role, content |-> text]

\* create_chat_session: the id of the inserted document, or None when the
\* user is not found or the insert raises
CreateChatSessionResults(docs) ==
    {None} \cup (IF SessionIds \subseteq DOMAIN docs
                 THEN {}
                 ELSE {CHOOSE id \in SessionIds : id \notin DOMAIN docs})

\* add_message_to_session: $push on the document of the id; an id without a
\* document matches nothing
AddMessageToSession(docs, id, role, text) ==
    IF id \in DOMAIN docs
    THEN [docs EXCEPT ![id] = Append(@, Message(role, text))]
    ELSE docs

\* get_session_messages(...)["messages"], empty when there is no document
GetSessionMessages(docs, id) ==
    IF id \in DOMAIN docs THEN docs[id] ELSE <<>>

(***************************************************************************)
(* The chat turn (src/server.py): chat, stream_with_persistence and        *)
(* stream_generator                                                        *)
(***************************************************************************)
\* responses of the model in one agent run
MaxAgentEvents == 2

UserIds == {"u1"}
MessageTexts == {"hi", ""}

ChatRequest(user_id, message, sid) ==
    [user_id |-> user_id, message |-> message, session_id |-> sid]
ChatRequests ==
    {ChatRequest(u, m, sid) :
        u \in UserIds, m \in MessageTexts, sid \in SessionIds \cup {None, "null"}}
NoRequest == ChatRequest(None, None, None)

\* one chunk "data: <payload>\n\n": json.loads reads the payload as a dict
\* with one key, or fails on it ([DONE])
Chunk(is_json, key, value) ==
    [prefix |-> "data: ", is_json |-> is_json, key |-> key, value |-> value]
ContentChunk(text) == Chunk(TRUE, "content", text)
DoneChunk == Chunk(FALSE, None, "[DONE]")
SessionIdChunk(id) == Chunk(TRUE, "session_id", id)

SetupErrorText == "Error: Failed to initialize chat session."
RunErrors == {"boom"}
RunErrorText(e) == "Error: " \o e

\* the body of stream_with_persistence's loop on one chunk
Accumulate(full, chunk) ==
    IF chunk.prefix = "data: " /\ chunk.is_json /\ chunk.key = "content"
    THEN full \o chunk.value
    ELSE full

RECURSIVE AccumulateAll(_, _)
AccumulateAll(full, chunks) ==
    IF chunks = <<>> THEN full
    ELSE Accumulate(AccumulateAll(full, SubSeq(chunks, 1, Len(chunks) - 1)),
                    chunks[Len(chunks)])

\* stream_generator yields chunks; stream_with_persistence accumulates and
\* yields each of them to the caller
Forward(chunks) ==
    /\ frames' = frames \o chunks
    /\ full_response' = AccumulateAll(full_response, chunks)

RECURSIVE TextChunksOfEveryText(_)
\* mutant: an empty text is forwarded as a chunk too
TextChunksOfEveryText(ps) ==
    IF ps = <<>> THEN <<>>
    ELSE LET p == ps[Len(ps)]
             front == TextChunksOfEveryText(SubSeq(ps, 1, Len(ps) - 1))
         IN IF p.kind = "text" THEN Append(front, ContentChunk(p.text)) ELSE front

RECURSIVE TextChunks(_)
\* for part in event.content.parts: if part.text: yield ...
TextChunks(ps) ==
    IF ps = <<>> THEN <<>>
    ELSE LET p == ps[Len(ps)]
             front == TextChunks(SubSeq(ps, 1, Len(ps) - 1))
         IN IF HasText(p) THEN Append(front, ContentChunk(p.text)) ELSE front

\* the session of the turn
TurnTriple(req, sid) == Triple("agents", req.user_id, sid)

\* append_event on a row that is read and written in one go
AppendTo(rows, t, e) ==
    [rows EXCEPT ![KeyOf(t)] = UpdatedRow(@, @, e)]

\* what the model answered: LlmResponse(content=...) or
\* LlmResponse(error_code=..., error_message=...)
LlmResponse(c, error_code, error_message) ==
    [content |-> c, error_code |-> error_code, error_message |-> error_message]
NoResponse == LlmResponse(NoContent, None, None)

\* the contents the agent run yields: text, text with a tool call, a tool
\* result, a response without parts, and texts around an empty text
AgentContents ==
    {Content("model", <<TextPart("a")>>),
     Content("model", <<TextPart("a"), FunctionCallPart("c1", "f", "{}")>>),
     Content("user", <<FunctionResponsePart("c1", "f", Str("ok"))>>),
     Content("model", <<>>),
     Content("model", <<TextPart("b"), TextPart(""), TextPart("c")>>)}

\* chat up to the return of the StreamingResponse
ChatReceive ==
    /\ tpc = "idle"
    /\ \E r \in ChatRequests, orchestrator_ok \in BOOLEAN :
          /\ request' = r
          /\ IF ~Truthy(r.session_id) \/ r.session_id = "null"
             THEN \E new \in CreateChatSessionResults(mongo) :
                     /\ adk_session_id' = new
                     /\ IF new = None
                        THEN /\ tpc' = "http500"
                             /\ UNCHANGED mongo
                             /\ saved' = <<>>
                        ELSE /\ mongo' = AddMessageToSession(
                                            (new :> <<>>) @@ mongo,
                                            new, "user", r.message)
                             /\ saved' = <<Message("user", r.message)>>
                             /\ tpc' = IF orchestrator_ok THEN "setup"
                                       ELSE "http500"
             ELSE /\ adk_session_id' = r.session_id
                  /\ mongo' = AddMessageToSession(mongo, r.session_id,
                                                  "user", r.message)
                  /\ saved' = IF r.session_id \in DOMAIN mongo
                              THEN <<Message("user", r.message)>>
                              ELSE <<>>
                  /\ tpc' = IF orchestrator_ok THEN "setup" ELSE "http500"
    /\ frames' = <<>>
    /\ full_response' = ""
    /\ existing_session' = NoSession
    /\ mongo_messages' = <<>>
    /\ msg_idx' = 1
    /\ last_response' = NoResponse
    /\ outcome' = None
    /\ appended' = <<>>
    /\ UNCHANGED <<db, other_than_turn>>

\* mutant: the handler of the setup returns without a chunk
SetupFailsSilently ==
    /\ Forward(<<>>)
    /\ outcome' = "setup_error"
    /\ tpc' = "stream_end"

\* except Exception as setup_error: the error chunk, then return
SetupFails ==
    /\ Forward(<<ContentChunk(SetupErrorText)>>)
    /\ outcome' = "setup_error"
    /\ tpc' = "stream_end"

\* mutant: the session is created and hydrated whether it was found or not
SetupLookupThenCreate ==
    /\ tpc = "setup"
    /\ \/ LET r == GetSessionInner(db, TurnTriple(request, adk_session_id))
          IN /\ existing_session' = r.session
             /\ tpc' = "create"
             /\ UNCHANGED <<frames, full_response, outcome>>
       \/ /\ SetupFails
          /\ UNCHANGED existing_session
    /\ UNCHANGED <<db, mongo, request, adk_session_id, mongo_messages, msg_idx,
                   last_response, saved, appended, other_than_turn>>

\* existing_session = await session_service.get_session(...)
SetupLookup ==
    /\ tpc = "setup"
    /\ \/ LET r == GetSessionInner(db, TurnTriple(request, adk_session_id))
          IN /\ existing_session' = r.session
             /\ tpc' = IF r.kind = "Session" THEN "run" ELSE "create"
             /\ UNCHANGED <<frames, full_response, outcome>>
       \/ /\ SetupFails
          /\ UNCHANGED existing_session
    /\ UNCHANGED <<db, mongo, request, adk_session_id, mongo_messages, msg_idx,
                   last_response, saved, appended, other_than_turn>>

\* create_session and the read of the secondary store
SetupCreate ==
    /\ tpc = "create"
    /\ \/ LET t == TurnTriple(request, adk_session_id)
              session_key == KeyOf(t)
              found == GetSessionMessages(mongo, adk_session_id)
          IN /\ IF session_key \in DOMAIN db
                THEN /\ existing_session' =
                           Session(t.app_name, t.user_id, t.session_id,
                                   EventsOfRow(db[session_key]))
                     /\ UNCHANGED db
                ELSE /\ existing_session' =
                           Session(t.app_name, t.user_id, t.session_id, <<>>)
                     /\ db' = (session_key :> Row(t, JsonDumps(<<>>))) @@ db
             /\ mongo_messages' = found
             /\ tpc' = IF Len(found) > 0 THEN "hydrate" ELSE "run"
             /\ UNCHANGED <<frames, full_response, outcome>>
       \/ /\ SetupFails
          /\ UNCHANGED <<db, existing_session, mongo_messages>>
    /\ UNCHANGED <<mongo, request, adk_session_id, msg_idx, last_response, saved,
                   appended, other_than_turn>>

\* mutant: every replayed message is the user's
HydratedEventAsUser(msg) ==
    Event("user", Content("user", <<TextPart(msg.content)>>))

\* the Event the hydration makes of one message
HydratedEvent(msg) ==
    Event(msg.role, Content(msg.role, <<TextPart(msg.content)>>))

\* one iteration of `for idx, msg in enumerate(mongo_session["messages"])`
HydrateMessage ==
    /\ tpc = "hydrate"
    /\ LET msg == mongo_messages[msg_idx]
           t == TurnTriple(request, adk_session_id)
           after == IF msg_idx = Len(mongo_messages) THEN "run" ELSE "hydrate"
       IN \/ /\ ~Truthy(msg.content)
             /\ msg_idx' = msg_idx + 1
             /\ tpc' = after
             /\ UNCHANGED <<db, existing_session, frames, full_response, outcome>>
          \/ /\ Truthy(msg.content)
             /\ KeyOf(t) \in DOMAIN db
             /\ db' = AppendTo(db, t, HydratedEvent(msg))
             /\ existing_session' =
                   [existing_session EXCEPT
                       !.events = Append(@, HydratedEvent(msg))]
             /\ msg_idx' = msg_idx + 1
             /\ tpc' = after
             /\ UNCHANGED <<frames, full_response, outcome>>
          \/ /\ Truthy(msg.content)
             /\ SetupFails
             /\ UNCHANGED <<db, existing_session, msg_idx>>
    /\ UNCHANGED <<mongo, request, adk_session_id, mongo_messages, last_response,
                   saved, appended, other_than_turn>>

\* runner.run_async(...) is entered: the Runner appends new_message to the
\* session as the user's event
RunStart ==
    /\ tpc = "run"
    /\ LET t == TurnTriple(request, adk_session_id)
           new_message == Content("user", <<TextPart(request.message)>>)
       IN /\ KeyOf(t) \in DOMAIN db
          /\ db' = AppendTo(db, t, Event("user", new_message))
          /\ appended' = <<Event("user", new_message)>>
    /\ tpc' = "agent"
    /\ UNCHANGED <<mongo, request, adk_session_id, frames, full_response,
                   existing_session, mongo_messages, msg_idx, last_response,
                   outcome, saved, other_than_turn>>

\* the run may go on: it has responses left and the last one was no error
RunGoesOn ==
    /\ tpc = "agent"
    /\ Len(appended) <= MaxAgentEvents
    /\ last_response.error_code = None

\* one event of the run with content: the Runner appends it to the session
\* and the loop body forwards its text parts
AgentEvent ==
    /\ RunGoesOn
    /\ \E c \in AgentContents :
          LET e == Event("orchestrator", c)
          IN /\ db' = AppendTo(db, TurnTriple(request, adk_session_id), e)
             /\ appended' = Append(appended, e)
             /\ last_response' = LlmResponse(c, None, None)
             /\ Forward(TextChunks(c.parts))
    /\ UNCHANGED <<mongo, request, adk_session_id, tpc, existing_session,
                   mongo_messages, msg_idx, outcome, saved, other_than_turn>>

\* the completion call raises: generate_content_async yields a response with
\* an error code and no content, and the loop body has nothing to forward
BackendFails ==
    /\ RunGoesOn
    /\ \E e \in RunErrors :
          LET resp == LlmResponse(NoContent, "OPENAI_ERROR", e)
              ev == Event("orchestrator", resp.content)
          IN /\ db' = AppendTo(db, TurnTriple(request, adk_session_id), ev)
             /\ appended' = Append(appended, ev)
             /\ last_response' = resp
             /\ Forward(TextChunks(resp.content.parts))
    /\ UNCHANGED <<mongo, request, adk_session_id, tpc, existing_session,
                   mongo_messages, msg_idx, outcome, saved, other_than_turn>>

\* the async for is exhausted
RunEnds ==
    /\ tpc = "agent"
    /\ last_response # NoResponse
    /\ outcome' = "exhausted"
    /\ tpc' = "marker"
    /\ UNCHANGED <<db, mongo, request, adk_session_id, frames, full_response,
                   existing_session, mongo_messages, msg_idx, last_response,
                   saved, appended, other_than_turn>>

\* except Exception as run_error: the error chunk
RunFails ==
    /\ tpc \in {"run", "agent"}
    /\ last_response.error_code = None
    /\ \E e \in RunErrors : Forward(<<ContentChunk(RunErrorText(e))>>)
    /\ outcome' = "run_error"
    /\ tpc' = "marker"
    /\ UNCHANGED <<db, mongo, request, adk_session_id, existing_session,
                   mongo_messages, msg_idx, last_response, saved, appended, other_than_turn>>

\* yield "data: [DONE]\n\n"
EmitDone ==
    /\ tpc = "marker"
    /\ Forward(<<DoneChunk>>)
    /\ tpc' = "stream_end"
    /\ UNCHANGED <<db, mongo, request, adk_session_id, existing_session,
                   mongo_messages, msg_idx, last_response, outcome, saved,
                   appended, other_than_turn>>

\* mutant: the assistant message is saved whatever was accumulated
SaveAssistantAlways ==
    /\ tpc = "stream_end"
    /\ mongo' = AddMessageToSession(mongo, adk_session_id, "assistant",
                                    full_response)
    /\ saved' = IF adk_session_id \in DOMAIN mongo
                THEN Append(saved, Message("assistant", full_response))
                ELSE saved
    /\ tpc' = "saved"
    /\ UNCHANGED <<db, request, adk_session_id, frames, full_response,
                   existing_session, mongo_messages, msg_idx, last_response,
                   outcome, appended, other_than_turn>>

\* mutant: the session_id chunk is yielded before the assistant message is
\* saved
SaveAssistantAfterSessionId ==
    /\ tpc = "stream_end"
    /\ IF Truthy(full_response)
       THEN /\ mongo' = AddMessageToSession(mongo, adk_session_id, "assistant",
                                            full_response)
            /\ saved' = IF adk_session_id \in DOMAIN mongo
                        THEN Append(saved, Message("assistant", full_response))
                        ELSE saved
       ELSE UNCHANGED <<mongo, saved>>
    /\ frames' = Append(frames, SessionIdChunk(adk_session_id))
    /\ tpc' = "end"
    /\ UNCHANGED <<db, request, adk_session_id, full_response, existing_session,
                   mongo_messages, msg_idx, last_response, outcome, appended, other_than_turn>>

\* stream_generator is exhausted: save the assistant message
SaveAssistant ==
    /\ tpc = "stream_end"
    /\ IF Truthy(full_response)
       THEN /\ mongo' = AddMessageToSession(mongo, adk_session_id, "assistant",
                                            full_response)
            /\ saved' = IF adk_session_id \in DOMAIN mongo
                        THEN Append(saved, Message("assistant", full_response))
                        ELSE saved
       ELSE UNCHANGED <<mongo, saved>>
    /\ tpc' = "saved"
    /\ UNCHANGED <<db, request, adk_session_id, frames, full_response,
                   existing_session, mongo_messages, msg_idx, last_response,
                   outcome, appended, other_than_turn>>

\* the session_id chunk, and stream_with_persistence returns
Finish ==
    /\ tpc = "saved"
    /\ frames' = Append(frames, SessionIdChunk(adk_session_id))
    /\ tpc' = "end"
    /\ UNCHANGED <<db, mongo, request, adk_session_id, full_response,
                   existing_session, mongo_messages, msg_idx, last_response,
                   outcome, saved, appended, other_than_turn>>

\* the caller goes away while the response is streamed: the generators are
\* closed where they stand and none of their remaining code runs
Disconnect ==
    /\ tpc \in {"setup", "create", "hydrate", "run", "agent", "marker",
                "stream_end"}
    /\ tpc' = "closed"
    /\ UNCHANGED <<db, mongo, request, adk_session_id, frames, full_response,
                   existing_session, mongo_messages, msg_idx, last_response,
                   outcome, saved, appended, other_than_turn>>

(***************************************************************************)
(* The service's calls on ids that hold the separator of the key           *)
(***************************************************************************)
\* triples whose user_id or session_id holds a ':'
ColonTriples ==
    {Triple("agents", "u1", "s1"),
     Triple("agents", "u1:x", "s1"),
     Triple("agents", "u1", "x:s1")}

\* the columns of a row that name its session
TripleOfRow(row) == Triple(row.app_name, row.user_id, row.session_id)

\* a whole call leaves no call in progress
WholeCall(p) ==
    /\ Begin(p)
    /\ Started(p)
    /\ NoRetryLocals(p)
    /\ UNCHANGED <<pc, record, other_than_store>>

\* create_session from its query to its return
CreateSessionCall(p) ==
    /\ WholeCall(p)
    /\ \E t \in ColonTriples :
          LET session_key == KeyOf(t)
              s == IF session_key \in DOMAIN db
                   THEN Session(t.app_name, t.user_id, t.session_id,
                                EventsOfRow(db[session_key]))
                   ELSE Session(t.app_name, t.user_id, t.session_id, <<>>)
          IN /\ op' = [op EXCEPT ![p] = Call("create_session", t, NoEvent)]
             /\ db' = IF session_key \in DOMAIN db
                      THEN db
                      ELSE (session_key :> Row(t, JsonDumps(<<>>))) @@ db
             /\ ret' = [ret EXCEPT ![p] = Returned(s)]
             /\ handle' = [handle EXCEPT ![p] = s]

\* get_session when its query succeeds at once
GetSessionCall(p) ==
    /\ WholeCall(p)
    /\ \E t \in ColonTriples :
          LET r == GetSessionInner(db, t)
          IN /\ op' = [op EXCEPT ![p] = Call("get_session", t, NoEvent)]
             /\ ret' = [ret EXCEPT ![p] = r]
             /\ handle' = [handle EXCEPT ![p] =
                              IF r.kind = "Session" THEN r.session ELSE @]
    /\ UNCHANGED db

\* append_event from its query to its return, on the session the caller holds
AppendEventCall(p) ==
    /\ WholeCall(p)
    /\ handle[p] # NoSession
    /\ \E event \in StoreEvents :
          LET session == handle[p]
              t == Triple(session.app_name, session.user_id, session.id)
              session_key == KeyOf(t)
          IN /\ op' = [op EXCEPT ![p] = Call("append_event", t, event)]
             /\ IF session_key \notin DOMAIN db
                THEN /\ ret' = [ret EXCEPT ![p] =
                                  Raised(Error("ValueError",
                                               <<"Session", "not", "found">>))]
                     /\ UNCHANGED <<db, handle>>
                ELSE /\ db' = AppendTo(db, t, event)
                     /\ handle' = [handle EXCEPT ![p].events = Append(@, event)]
                     /\ ret' = [ret EXCEPT ![p] = ReturnedNone]

\* delete_session from its query to its return
DeleteSessionCall(p) ==
    /\ WholeCall(p)
    /\ \E t \in ColonTriples :
          /\ op' = [op EXCEPT ![p] = Call("delete_session", t, NoEvent)]
          /\ db' = [k \in DOMAIN db \ {KeyOf(t)} |-> db[k]]
    /\ ret' = [ret EXCEPT ![p] = ReturnedNone]
    /\ UNCHANGED handle

(***************************************************************************)
(* stream_generator's session setup in independent processes               *)
(* (src/server.py 70-109 on src/postgres_session_service.py)               *)
(***************************************************************************)
\* the session the concurrent turns are for
SharedTriple == Triple("agents", "u1", "s1")

\* mongo_session["messages"] of the shared session
SharedMessages == GetSessionMessages(mongo, SharedTriple.session_id)

\* where the setup goes on once the hydration loop has consumed message i
AfterMessage(i) == IF i >= Len(SharedMessages) THEN "ready" ELSE "hydrate"

\* existing_session = await session_service.get_session(...): a session that
\* is found is used as it is, a missing one is created
LookupSession(p) ==
    /\ setup_pc[p] = "lookup"
    /\ LET r == GetSessionInner(db, SharedTriple)
       IN IF r.kind = "Session"
          THEN /\ handle' = [handle EXCEPT ![p] = r.session]
               /\ setup_pc' = [setup_pc EXCEPT ![p] = "ready"]
          ELSE /\ setup_pc' = [setup_pc EXCEPT ![p] = "create"]
               /\ UNCHANGED handle
    /\ UNCHANGED <<db, pc, op, ret, record, attempt, disposals, exc, caller,
                   n_ops, setup_idx, recon_vars, codec_vars, turn_vars,
                   gen_vars>>

\* create_session's query: the row another process inserted meanwhile is
\* returned as the session; the messages of the secondary store are read
\* and replayed whether the row was inserted by this call or not
CreateQuery(p) ==
    /\ setup_pc[p] = "create"
    /\ LET t == SharedTriple
           session_key == KeyOf(t)
       IN IF session_key \in DOMAIN db
          THEN /\ handle' = [handle EXCEPT ![p] =
                                Session(t.app_name, t.user_id, t.session_id,
                                        EventsOfRow(db[session_key]))]
               /\ setup_pc' = [setup_pc EXCEPT ![p] =
                                  IF Len(SharedMessages) > 0
                                  THEN "hydrate" ELSE "ready"]
          ELSE /\ setup_pc' = [setup_pc EXCEPT ![p] = "insert"]
               /\ UNCHANGED handle
    /\ UNCHANGED <<db, pc, op, ret, record, attempt, disposals, exc, caller,
                   n_ops, setup_idx, recon_vars, codec_vars, turn_vars,
                   gen_vars>>

\* create_session's db.add(record); db.commit(): the INSERT raises on the
\* primary key when another process inserted the row after the query, and
\* the setup's handler ends the turn
CreateInsert(p) ==
    /\ setup_pc[p] = "insert"
    /\ LET t == SharedTriple
           session_key == KeyOf(t)
       IN IF session_key \in DOMAIN db
          THEN /\ setup_pc' = [setup_pc EXCEPT ![p] = "failed"]
               /\ UNCHANGED <<db, handle>>
          ELSE /\ db' = (session_key :> Row(t, JsonDumps(<<>>))) @@ db
               /\ handle' = [handle EXCEPT ![p] =
                                Session(t.app_name, t.user_id, t.session_id, <<>>)]
               /\ setup_pc' = [setup_pc EXCEPT ![p] =
                                  IF Len(SharedMessages) > 0
                                  THEN "hydrate" ELSE "ready"]
    /\ UNCHANGED <<pc, op, ret, record, attempt, disposals, exc, caller,
                   n_ops, setup_idx, recon_vars, codec_vars, turn_vars,
                   gen_vars>>

\* one iteration of the hydration loop up to append_event's query: a message
\* without content is skipped, else the row is read
HydrateQuery(p) ==
    /\ setup_pc[p] = "hydrate"
    /\ LET msg == SharedMessages[setup_idx[p]]
           session_key == KeyOf(SharedTriple)
       IN IF ~Truthy(msg.content)
          THEN /\ setup_idx' = [setup_idx EXCEPT ![p] = @ + 1]
               /\ setup_pc' = [setup_pc EXCEPT ![p] = AfterMessage(setup_idx[p])]
               /\ UNCHANGED record
          ELSE IF session_key \notin DOMAIN db
          THEN /\ setup_pc' = [setup_pc EXCEPT ![p] = "failed"]
               /\ UNCHANGED <<record, setup_idx>>
          ELSE /\ record' = [record EXCEPT ![p] = db[session_key]]
               /\ setup_pc' = [setup_pc EXCEPT ![p] = "commit"]
               /\ UNCHANGED setup_idx
    /\ UNCHANGED <<db, pc, op, ret, handle, attempt, disposals, exc, caller,
                   n_ops, recon_vars, codec_vars, turn_vars,
                   gen_vars>>

\* append_event's db.commit() for the message of the iteration: the UPDATE
\* writes the list this call read plus the event
HydrateCommit(p) ==
    /\ setup_pc[p] = "commit"
    /\ LET event == HydratedEvent(SharedMessages[setup_idx[p]])
           session_key == KeyOf(SharedTriple)
       IN /\ db' = [db EXCEPT ![session_key] =
                       UpdatedRow(record[p], db[session_key], event)]
          /\ handle' = [handle EXCEPT ![p].events = Append(@, event)]
    /\ setup_idx' = [setup_idx EXCEPT ![p] = @ + 1]
    /\ setup_pc' = [setup_pc EXCEPT ![p] = AfterMessage(setup_idx[p])]
    /\ UNCHANGED <<pc, op, ret, record, attempt, disposals, exc, caller,
                   n_ops, recon_vars, codec_vars, turn_vars,
                   gen_vars>>

(***************************************************************************)
(* generate_content_async: the completion call (openai_model.py 228-294)   *)
(***************************************************************************)
\* chunks of one stream of the backend
MaxChunks == 2

\* a tool of the request: its function_declarations, or None when the tool
\* has no such attribute
Tool(function_declarations) ==
    [has_declarations |-> function_declarations # None,
     function_declarations |->
         IF function_declarations = None THEN <<>> ELSE function_declarations]

\* llm_request.config.tools: none, a tool without declarations, a tool with
\* an empty list of them, and a tool that declares f
ToolLists ==
    {<<>>, <<Tool(None)>>, <<Tool(<<>>)>>, <<Tool(<<"f">>)>>,
     <<Tool(None), Tool(<<"f">>)>>}

RECURSIVE OpenAiTools(_)
\* openai_tools: one entry per function declaration of the tools
OpenAiTools(ts) ==
    IF ts = <<>> THEN <<>>
    ELSE (IF Head(ts).has_declarations
          THEN Head(ts).function_declarations ELSE <<>>)
         \o OpenAiTools(Tail(ts))

\* use_stream = stream and not openai_tools
UseStream(requested, ts) == requested /\ OpenAiTools(ts) = <<>>

\* what the generator yields
Response(c, error_code, error_message, partial, turn_complete) ==
    [content |-> c, error_code |-> error_code, error_message |-> error_message,
     partial |-> partial, turn_complete |-> turn_complete]

\* an exception: its class and its str(e)
Failure(cls, msg) == [cls |-> cls, msg |-> msg]
NoFailure == Failure(None, None)

\* the exceptions of the backend call and of its stream
BackendErrors ==
    {Failure("RateLimitError", "rate limit"),
     Failure("APIConnectionError", "connection reset")}

\* the classes that derive from Exception
ExceptionClasses ==
    {"RateLimitError", "APIConnectionError", "IndexError", "JSONDecodeError"}

\* a chunk of the stream: no choices, or one choice with its delta.content
StreamChunks ==
    {[choices |-> <<>>]}
    \cup {[choices |-> <<[content |-> c]>>] : c \in {"a", "", None}}

\* the arguments of a tool call of the backend: JSON text or not
Arguments == {[kind |-> "json", of |-> "{}"], [kind |-> "text", of |-> "{"]}

\* response.choices of a completion that is not streamed
Completions ==
    {<<>>}
    \cup {<<[content |-> c, tool_calls |-> tcs]>> :
             c \in {"a", "", None},
             tcs \in {<<>>} \cup {<<[id |-> "c1", name |-> "f", arguments |-> a]>> :
                                     a \in Arguments}}

\* the exception the non-streamed branch raises on the choices, if any:
\* choices[0] of an empty list, json.loads of what is not JSON
BuildError(choices) ==
    IF choices = <<>> THEN Failure("IndexError", "list index out of range")
    ELSE IF \E i \in 1..Len(choices[1].tool_calls) :
                choices[1].tool_calls[i].arguments.kind # "json"
    THEN Failure("JSONDecodeError", "Expecting value")
    ELSE NoFailure

\* the parts made of message.content and message.tool_calls
BuiltParts(message) ==
    (IF Truthy(message.content) THEN <<TextPart(message.content)>> ELSE <<>>)
    \o [i \in 1..Len(message.tool_calls) |->
           FunctionCallPart(message.tool_calls[i].id, message.tool_calls[i].name,
                            message.tool_calls[i].arguments.of)]

\* mutant: the handler catches nothing
CaughtNever(e) == FALSE

\* except Exception as e
Caught(e) == e.cls \in ExceptionClasses

\* an exception e in the try block: the handler yields the error response
\* and the generator ends, or the exception leaves the generator
Raise(e) ==
    /\ failure' = e
    /\ IF Caught(e)
       THEN /\ yielded' = Append(yielded,
                                 Response(NoContent, "OPENAI_ERROR", e.msg,
                                          FALSE, FALSE))
            /\ gpc' = "end"
       ELSE /\ gpc' = "raised"
            /\ UNCHANGED yielded

\* use_stream is computed and acompletion(**kwargs) is awaited
CallCompletion ==
    /\ gpc = "call"
    /\ use_stream' = UseStream(stream, tools)
    /\ \/ /\ gpc' = IF UseStream(stream, tools) THEN "stream" ELSE "message"
          /\ UNCHANGED <<yielded, failure>>
       \/ \E e \in BackendErrors : Raise(e)
    /\ UNCHANGED <<tools, stream, n_chunks, recon_vars, store_vars, codec_vars,
                   turn_vars, setup_vars>>

\* one iteration of `async for chunk in response`: a chunk with content is
\* yielded as a partial response
StreamChunk ==
    /\ gpc = "stream"
    /\ n_chunks < MaxChunks
    /\ \E chunk \in StreamChunks :
          yielded' =
              IF chunk.choices # <<>> /\ Truthy(chunk.choices[1].content)
              THEN Append(yielded,
                          Response(Content("model",
                                           <<TextPart(chunk.choices[1].content)>>),
                                   None, None, TRUE, FALSE))
              ELSE yielded
    /\ n_chunks' = n_chunks + 1
    /\ UNCHANGED <<tools, stream, use_stream, failure, gpc, recon_vars,
                   store_vars, codec_vars, turn_vars, setup_vars>>

\* the stream raises while it is consumed
StreamRaises ==
    /\ gpc = "stream"
    /\ \E e \in BackendErrors : Raise(e)
    /\ UNCHANGED <<tools, stream, use_stream, n_chunks, recon_vars, store_vars,
                   codec_vars, turn_vars, setup_vars>>

\* the stream is exhausted
StreamEnds ==
    /\ gpc = "stream"
    /\ gpc' = "end"
    /\ UNCHANGED <<tools, stream, use_stream, yielded, n_chunks, failure,
                   recon_vars, store_vars, codec_vars, turn_vars, setup_vars>>

\* the non-streamed branch: the parts of response.choices[0].message are
\* yielded as one response with turn_complete
CompleteResponse ==
    /\ gpc = "message"
    /\ \E choices \in Completions :
          IF BuildError(choices) # NoFailure
          THEN Raise(BuildError(choices))
          ELSE /\ yielded' = Append(yielded,
                                    Response(Content("model", BuiltParts(choices[1])),
                                             None, None, FALSE, TRUE))
               /\ gpc' = "end"
               /\ UNCHANGED failure
    /\ UNCHANGED <<tools, stream, use_stream, n_chunks, recon_vars, store_vars,
                   codec_vars, turn_vars, setup_vars>>

(***************************************************************************)
(* Specifications                                                          *)
(***************************************************************************)
CallsIdle ==
    /\ pc = [p \in Procs |-> "idle"]
    /\ op = [p \in Procs |-> NoCall]
    /\ ret = [p \in Procs |-> NoReturn]
    /\ handle = [p \in Procs |-> NoSession]
    /\ record = [p \in Procs |-> NoRow]
    /\ attempt = [p \in Procs |-> 0]
    /\ disposals = [p \in Procs |-> 0]
    /\ exc = [p \in Procs |-> NoError]
    /\ caller = None
    /\ n_ops = 0

StoreIdle == db = <<>> /\ CallsIdle

ReconIdle ==
    /\ content = NoContent
    /\ n_parts = 0
    /\ messages = <<>>
    /\ tool_response_ids = {}
    /\ cleaned_messages = <<>>
    /\ rpc = "convert"

CodecIdle ==
    /\ an_event = NoEvent
    /\ its_dict = SerializeEvent(NoEvent)
    /\ restored = NoEvent
    /\ cpc = "idle"

TurnLocalsIdle ==
    /\ request = NoRequest
    /\ adk_session_id = None
    /\ tpc = "idle"
    /\ frames = <<>>
    /\ full_response = ""
    /\ existing_session = NoSession
    /\ mongo_messages = <<>>
    /\ msg_idx = 1
    /\ last_response = NoResponse
    /\ outcome = None
    /\ saved = <<>>
    /\ appended = <<>>

TurnIdle == mongo = <<>> /\ TurnLocalsIdle

SetupsIdle ==
    /\ setup_pc = [p \in Procs |-> "idle"]
    /\ setup_idx = [p \in Procs |-> 1]

GenIdle ==
    /\ tools = <<>>
    /\ stream = FALSE
    /\ use_stream = FALSE
    /\ yielded = <<>>
    /\ n_chunks = 0
    /\ failure = NoFailure
    /\ gpc = "idle"

\* the setups and the completion call at rest
OthersIdle == SetupsIdle /\ GenIdle

Init == ReconIdle /\ StoreIdle /\ CodecIdle /\ TurnIdle /\ OthersIdle

\* one request of LiteLlm.generate_content_async
ReconNext == ConvertContent \/ CollectToolResponseIds \/ RepairPass

SpecRecon == Init /\ [][ReconNext]_vars

\* one request whose contents hold texts that differ
ReconWordsNext == ConvertWordContent \/ CollectToolResponseIds \/ RepairPass

SpecReconWords == Init /\ [][ReconWordsNext]_vars

Step(p) ==
    \/ CreateSession(p) \/ CreateCommit(p)
    \/ GetSession(p) \/ GetAttemptReturns(p) \/ GetAttemptRaises(p)
    \/ DeleteSession(p) \/ DeleteCommit(p)
    \/ AppendEvent(p) \/ AppendCommit(p)

\* the processes' calls run one at a time
Exclusive(p) == \A q \in Procs \ {p} : pc[q] = "idle"

SeqNext ==
    \E p \in Procs :
        \/ Exclusive(p) /\ CreateSession(p)
        \/ Exclusive(p) /\ CreateCommit(p)
        \/ Exclusive(p) /\ GetSession(p)
        \/ Exclusive(p) /\ GetAttemptReturns(p)
        \/ Exclusive(p) /\ GetAttemptRaises(p)
        \/ Exclusive(p) /\ DeleteSession(p)
        \/ Exclusive(p) /\ DeleteCommit(p)
        \/ Exclusive(p) /\ AppendEvent(p)
        \/ Exclusive(p) /\ AppendCommit(p)

SpecSeq == Init /\ [][SeqNext]_vars

\* one Event through the codec and back
CodecStart ==
    /\ an_event \in CodecEvents
    /\ its_dict = SerializeEvent(NoEvent)
    /\ restored = NoEvent
    /\ cpc = "event"

CodecNext == SerializeStep \/ DeserializeStep

CodecInit == ReconIdle /\ StoreIdle /\ CodecStart /\ TurnIdle /\ OthersIdle

SpecCodec == CodecInit /\ [][CodecNext]_vars

\* one tool result through the codec and through the reconciler
NormStart ==
    /\ an_event \in ResponseEvents
    /\ its_dict = SerializeEvent(NoEvent)
    /\ restored = NoEvent
    /\ cpc = "event"

NormInit == ReconIdle /\ StoreIdle /\ NormStart /\ TurnIdle /\ OthersIdle

NormNext ==
    \/ SerializeStep \/ DeserializeStep
    \/ ConvertEventContent \/ CollectToolResponseIds \/ RepairPass

SpecNorm == NormInit /\ [][NormNext]_vars

\* the histories of a chat_sessions document when a turn starts: none yet,
\* one finished turn, and a turn without any text followed by a finished turn
Histories ==
    {<<>>,
     <<Message("user", "hi"), Message("assistant", "a")>>,
     <<Message("user", ""), Message("user", "hi"), Message("assistant", "a")>>}

\* the log a finished first turn leaves in adk_sessions: the hydrated user
\* message, the Runner's user event and the model's answer
FormerLog ==
    <<SerializeEvent(HydratedEvent(Message("user", "hi"))),
      SerializeEvent(Event("user", Content("user", <<TextPart("hi")>>))),
      SerializeEvent(Event("orchestrator", Content("model", <<TextPart("a")>>)))>>

\* the log an earlier hydration left when it failed after its first append
PartLog == <<SerializeEvent(HydratedEvent(Message("user", "hi")))>>

\* the two stores when a turn starts: both empty, or a document of s1 with
\* its row lost, just created, holding a part of the history, or holding the
\* former log
StoresAtStart ==
    LET t == Triple("agents", "u1", "s1")
        lost == <<>>
        created == (KeyOf(t) :> Row(t, JsonDumps(<<>>)))
        part == (KeyOf(t) :> Row(t, JsonDumps(PartLog)))
        logged == (KeyOf(t) :> Row(t, JsonDumps(FormerLog)))
    IN {[docs |-> <<>>, rows |-> lost]}
       \cup {[docs |-> ("s1" :> h), rows |-> r] :
                h \in Histories, r \in {lost, created}}
       \cup {[docs |-> ("s1" :> h), rows |-> r] :
                h \in Histories \ {<<>>}, r \in {part, logged}}

TurnStart ==
    /\ \E st \in StoresAtStart : mongo = st.docs /\ db = st.rows
    /\ CallsIdle
    /\ TurnLocalsIdle

\* one chat turn
TurnNext ==
    \/ ChatReceive
    \/ SetupLookup \/ SetupCreate \/ HydrateMessage
    \/ RunStart \/ AgentEvent \/ BackendFails \/ RunEnds \/ RunFails
    \/ EmitDone \/ SaveAssistant \/ Finish
    \/ Disconnect

TurnInit == ReconIdle /\ CodecIdle /\ TurnStart /\ OthersIdle

SpecTurn == TurnInit /\ [][TurnNext]_vars

\* the event lists of the rows list_sessions reads
StoredLogs ==
    {<<>>,
     <<SerializeEvent(Event("user", Content("user", <<TextPart("a")>>)))>>,
     <<SerializeEvent(Event("user", Content("user", <<TextPart("a")>>))),
       SerializeEvent(Event("orchestrator",
                            Content("model", <<TextPart(""),
                                               FunctionCallPart("c1", "f", "{}")>>)))>>}

\* the tables whose rows are those of some of the triples, each with one of
\* the event lists
Tables ==
    UNION {[{KeyOf(t) : t \in ts} -> StoredLogs] : ts \in SUBSET ListTriples}

TripleOfKey(k) == CHOOSE t \in ListTriples : KeyOf(t) = k

ListInit ==
    /\ \E logs \in Tables :
          db = [k \in DOMAIN logs |-> Row(TripleOfKey(k), JsonDumps(logs[k]))]
    /\ CallsIdle
    /\ ReconIdle /\ CodecIdle /\ TurnIdle /\ OthersIdle

ListNext == \E p \in Procs : ListSessions(p)

\* list_sessions on the tables
SpecList == ListInit /\ [][ListNext]_vars

\* create, get, append and list calls, one at a time, and no delete
LogNext ==
    \E p \in Procs :
        \/ Exclusive(p) /\ CreateSession(p)
        \/ Exclusive(p) /\ CreateCommit(p)
        \/ Exclusive(p) /\ GetSession(p)
        \/ Exclusive(p) /\ GetAttemptReturns(p)
        \/ Exclusive(p) /\ GetAttemptRaises(p)
        \/ Exclusive(p) /\ AppendEvent(p)
        \/ Exclusive(p) /\ AppendCommit(p)
        \/ Exclusive(p) /\ ListSessions(p)

SpecLog == Init /\ [][LogNext]_vars

\* two turns for one session that has a document in the secondary store and
\* no row in adk_sessions: every process is about to look the session up
SetupsStart ==
    /\ \E h \in Histories : mongo = (SharedTriple.session_id :> h)
    /\ db = <<>>
    /\ CallsIdle
    /\ TurnLocalsIdle
    /\ setup_pc = [p \in Procs |-> "lookup"]
    /\ setup_idx = [p \in Procs |-> 1]

SetupsInit == ReconIdle /\ CodecIdle /\ SetupsStart /\ GenIdle

SetupsNext ==
    \E p \in Procs :
        \/ LookupSession(p) \/ CreateQuery(p) \/ CreateInsert(p)
        \/ HydrateQuery(p) \/ HydrateCommit(p)

\* the setups of the processes interleave at every database round trip
SpecSetups == SetupsInit /\ [][SetupsNext]_vars

\* whole calls, one after the other, on the triples with ':' in their ids
KeysNext ==
    \E p \in Procs :
        \/ CreateSessionCall(p) \/ GetSessionCall(p)
        \/ AppendEventCall(p) \/ DeleteSessionCall(p)

SpecKeys == Init /\ [][KeysNext]_vars

\* a request is about to make its completion call
GenStart ==
    /\ tools \in ToolLists
    /\ stream \in BOOLEAN
    /\ use_stream = FALSE
    /\ yielded = <<>>
    /\ n_chunks = 0
    /\ failure = NoFailure
    /\ gpc = "call"

GenInit == ReconIdle /\ StoreIdle /\ CodecIdle /\ TurnIdle /\ SetupsIdle /\ GenStart

GenNext ==
    \/ CallCompletion
    \/ StreamChunk \/ StreamRaises \/ StreamEnds
    \/ CompleteResponse

\* one completion call of generate_content_async
SpecGen == GenInit /\ [][GenNext]_vars

\* the processes' calls interleave at every database round trip
Next == \E p \in Procs : Step(p)

Spec == Init /\ [][Next]_vars

(***************************************************************************)
(* Properties of the message reconciler                                    *)
(***************************************************************************)
\* the tool_call_ids of the tool-role messages of a list
EmittedToolIds(msgs) ==
    {msgs[i].tool_call_id : i \in {j \in 1..Len(msgs) : msgs[j].role = "tool"}}

CallIdsOf(msg) == {msg.tool_calls[i].id : i \in 1..Len(msg.tool_calls)}

\* a tool-call message without text none of whose ids has a tool message
Dangling(msg, msgs) ==
    /\ msg.has_tool_calls
    /\ msg.content = None
    /\ CallIdsOf(msg) \cap EmittedToolIds(msgs) = {}

\* what is left of a dangling tool-call message, with or without its tool_calls
Remnant(msg, msgs) ==
    /\ msg.role # "tool"
    /\ msg.content = None
    /\ CallIdsOf(msg) \cap EmittedToolIds(msgs) = {}

\* C1 as stated: the list sent holds no tool_calls-bearing message, of any
\* role, that lists an id without an emitted tool message, and nothing is left
\* of a tool-call message that had no text and no matched id.
C1_NoUnmatchedToolCalls ==
    rpc = "done" =>
        \A i \in 1..Len(cleaned_messages) :
            LET m == cleaned_messages[i]
            IN /\ m.has_tool_calls =>
                    CallIdsOf(m) \subseteq EmittedToolIds(cleaned_messages)
               /\ ~Remnant(m, cleaned_messages)

\* C1 amended: the same for the assistant-role messages. The list sent holds
\* no assistant message whose tool_calls list an id without an emitted tool
\* message; every dangling assistant tool-call message of the converted list
\* is absent from it, and nothing else is removed.
C1_NoUnmatchedAssistantToolCalls ==
    rpc = "done" =>
        /\ \A i \in 1..Len(cleaned_messages) :
              LET m == cleaned_messages[i]
              IN m.role = "assistant" =>
                    /\ m.has_tool_calls =>
                          /\ m.tool_calls # <<>>
                          /\ CallIdsOf(m) \subseteq EmittedToolIds(cleaned_messages)
                    /\ ~Remnant(m, cleaned_messages)
        /\ Len(cleaned_messages) =
              Len(messages) -
              Cardinality({i \in 1..Len(messages) :
                              /\ messages[i].role = "assistant"
                              /\ Dangling(messages[i], messages)})

\* C1 witness: the repair pass removed a dangling assistant tool-call message
\* and cut the tool_calls of another one down to the matched ids.
C1_Witness ==
    /\ rpc = "done"
    /\ \E i \in 1..Len(messages) :
          messages[i].role = "assistant" /\ Dangling(messages[i], messages)
    /\ \E i \in 1..Len(messages) :
          /\ messages[i].role = "assistant"
          /\ messages[i].has_tool_calls
          /\ CallIdsOf(messages[i]) \cap EmittedToolIds(messages) # {}
          /\ ~(CallIdsOf(messages[i]) \subseteq EmittedToolIds(messages))
    /\ \E i \in 1..Len(cleaned_messages) : cleaned_messages[i].has_tool_calls

\* C2 as stated: in the list sent every assistant message with tool_calls is
\* directly followed by a run of tool messages that covers each id it lists.
C2_ToolResultsFollowContiguously ==
    rpc = "done" =>
        \A i \in 1..Len(cleaned_messages) :
            LET m == cleaned_messages[i]
            IN (m.role = "assistant" /\ m.has_tool_calls) =>
                  \A id \in CallIdsOf(m) :
                      \E j \in (i + 1)..Len(cleaned_messages) :
                          /\ cleaned_messages[j].tool_call_id = id
                          /\ \A k \in (i + 1)..j :
                                cleaned_messages[k].role = "tool"

\* the role the specification gives the message of a content of role r
MappedRole(r) == IF r \in {"model", "assistant"} THEN "assistant" ELSE r

\* the content converted last emitted one message of its own role: it has no
\* function_response part, and it has a function_call part or some text
EmitsOwnMessage(c) ==
    /\ c # NoContent
    /\ \A i \in 1..Len(c.parts) : c.parts[i].kind # "function_response"
    /\ \E i \in 1..Len(c.parts) :
          c.parts[i].kind = "function_call" \/ HasText(c.parts[i])

\* C22 as stated: the message emitted for a content has role user when the
\* content's role is user, assistant when it is model or assistant, and the
\* content's own role when it is any other role.
C22_RoleMapping ==
    (rpc = "convert" /\ EmitsOwnMessage(content)) =>
        /\ Len(messages) > 0
        /\ messages[Len(messages)].role = MappedRole(content.role)

\* the function_response parts of a list of parts, in part order
ResponseParts(ps) ==
    SelectSeqIdx(ps, {i \in 1..Len(ps) : ps[i].kind = "function_response"})

\* the messages a step of the conversion loop added to the list
Added == SubSeq(messages', Len(messages) + 1, Len(messages'))

\* C23: the conversion of a content with one or more function_response parts
\* adds to the list one tool-role message per response and nothing else, in
\* part order, each with the response's id as tool_call_id, or 'call_unknown'
\* when the response has no id, whatever text or function_call parts the
\* content holds besides.
C23_OneToolMessagePerResponse ==
    [][(rpc' = "convert" /\ ResponseParts(content'.parts) # <<>>) =>
          LET rs == ResponseParts(content'.parts)
          IN /\ IsPrefix(messages, messages')
             /\ Len(Added) = Len(rs)
             /\ \A i \in 1..Len(rs) :
                   /\ Added[i].role = "tool"
                   /\ ~Added[i].has_tool_calls
                   /\ Added[i].tool_call_id =
                         (IF rs[i].id = None THEN "call_unknown" ELSE rs[i].id)]_vars

\* C23 witness: a content with text, a function_call and two responses, one
\* of them without id, was converted, and the list ends with the two tool
\* messages.
C23_Witness ==
    /\ rpc = "convert"
    /\ Len(ResponseParts(content.parts)) = 2
    /\ \E i \in 1..2 : ResponseParts(content.parts)[i].id = None
    /\ \E i \in 1..2 : ResponseParts(content.parts)[i].id # None
    /\ \E i \in 1..Len(content.parts) : HasText(content.parts[i])
    /\ \E i \in 1..Len(content.parts) : content.parts[i].kind = "function_call"
    /\ Len(messages) >= 2
    /\ messages[Len(messages)].role = "tool"
    /\ messages[Len(messages) - 1].role = "tool"
    /\ {messages[Len(messages)].tool_call_id,
        messages[Len(messages) - 1].tool_call_id} = {"c1", "call_unknown"}

\* an assistant message that holds the key tool_calls
IsAssistantToolCall(msg) == msg.role = "assistant" /\ msg.has_tool_calls

\* the tool calls of msg whose id is the tool_call_id of a tool message of msgs
MatchedCalls(msg, msgs) ==
    SelectSeqIdx(msg.tool_calls,
                 {i \in 1..Len(msg.tool_calls) :
                     msg.tool_calls[i].id \in EmittedToolIds(msgs)})

\* the positions of msgs whose message the repair pass is to drop
Dropped(msgs) ==
    {i \in 1..Len(msgs) :
        /\ IsAssistantToolCall(msgs[i])
        /\ MatchedCalls(msgs[i], msgs) = <<>>
        /\ ~Truthy(msgs[i].content)}

\* what the repair pass is to make of a message it does not drop
Repaired(msg, msgs) ==
    IF ~IsAssistantToolCall(msg) THEN msg
    ELSE IF MatchedCalls(msg, msgs) # <<>>
    THEN ToolCallMessage(msg.role, msg.content, MatchedCalls(msg, msgs))
    ELSE TextMessage(msg.role, msg.content)

\* C24: the list the repair pass builds holds, in the order of the converted
\* list, every message but the assistant tool-call messages that keep no tool
\* call and have no text; an assistant tool-call message is there with
\* exactly its tool calls whose id has an emitted tool message, in their
\* order, or as plain text without tool_calls when none of them has one; any
\* other message is there unchanged.
C24_RepairPass ==
    rpc = "done" =>
        LET survivors == (1..Len(messages)) \ Dropped(messages)
            rank(i) == Cardinality({k \in survivors : k <= i})
        IN /\ Len(cleaned_messages) = Cardinality(survivors)
           /\ \A i \in survivors :
                 cleaned_messages[rank(i)] = Repaired(messages[i], messages)

\* C24 witness: of two assistant tool-call messages without a tool message
\* for their ids the repair pass kept the one with text, as plain text, and
\* dropped the other, and the tool message of another id is still there,
\* after them.
C24_Witness ==
    /\ rpc = "done"
    /\ Dropped(messages) # {}
    /\ Len(cleaned_messages) = Len(messages) - 1
    /\ \E i \in 1..Len(messages) :
          /\ IsAssistantToolCall(messages[i])
          /\ MatchedCalls(messages[i], messages) = <<>>
          /\ Truthy(messages[i].content)
          /\ cleaned_messages[1] = TextMessage("assistant", messages[i].content)
    /\ cleaned_messages[Len(cleaned_messages)].role = "tool"

RECURSIVE Concatenation(_)
\* the texts of a list of text parts, one after the other
Concatenation(ps) ==
    IF ps = <<>> THEN ""
    ELSE ps[1].text \o Concatenation(Tail(ps))

OnlyTextParts(ps) == \A i \in 1..Len(ps) : ps[i].kind = "text"

\* C25: the conversion of a content whose parts are all texts adds nothing to
\* the list when none of the texts is non-empty (or there is no part), and
\* adds exactly one message, without tool_calls and with the texts
\* concatenated in part order as its content, when one of them is.
C25_TextOnlyContent ==
    [][(rpc' = "convert" /\ content' # NoContent
        /\ OnlyTextParts(content'.parts)) =>
          /\ IsPrefix(messages, messages')
          /\ IF \E i \in 1..Len(content'.parts) : content'.parts[i].text # ""
             THEN /\ Len(Added) = 1
                  /\ Added[1].content = Concatenation(content'.parts)
                  /\ ~Added[1].has_tool_calls
                  /\ Added[1].tool_call_id = None
             ELSE Added = <<>>]_vars

\* C25 witness: a content of three texts, two different non-empty ones around
\* an empty one, was converted into the one message "ab", and a content of an
\* empty text converted after it left the list as it was.
C25_Witness ==
    /\ rpc = "convert"
    /\ content.parts = <<TextPart("")>>
    /\ n_parts = 4
    /\ Len(messages) = 1
    /\ messages[1].content = "ab"

(***************************************************************************)
(* Properties of the Event codec                                           *)
(***************************************************************************)
\* C11 as stated: the Event that _deserialize_event makes of the dict that
\* _serialize_event made of an Event has the same author, the same content
\* role (or no content as well) and the same parts in the same order, a part
\* whose text is the empty string included.
C11_RoundTrip ==
    cpc = "restored" =>
        /\ restored.author = an_event.author
        /\ restored.content.role = an_event.content.role
        /\ restored.content.parts = an_event.content.parts

\* the event has been serialized
Serialized == cpc \in {"event_dict", "restored"}

\* the response stored for part i of the event
StoredResponse(i) == its_dict.content.parts[i].data

\* the content of the event has been converted
Converted == rpc = "convert" /\ n_parts > 0

RECURSIVE Normalized(_)
\* the normalization rule: a result value is unwrapped, an object becomes the
\* mapping of its public attributes, a mapping or a sequence keeps its shape,
\* anything else that is not a JSON value becomes a string, and the rule is
\* applied to every element
Normalized(v) ==
    CASE HasValue(v) -> Normalized(v.of["value"])
      [] v.kind = "object" /\ ~HasValue(v) ->
            Dict([k \in {j \in DOMAIN v.of : ~IsPrivate(j)} |->
                     Normalized(v.of[k])])
      [] v.kind = "dict" -> Dict([k \in DOMAIN v.of |-> Normalized(v.of[k])])
      [] v.kind = "list" -> List([i \in 1..Len(v.of) |-> Normalized(v.of[i])])
      [] v.kind = "str" -> v
      [] OTHER -> PyStr(v)

\* C30 as stated: the response the codec stores for a function_response
\* whose value is a dict or a list is the value with the normalization rule
\* applied to every element: a Result object inside it is replaced by its
\* value where it stands, and the dict or list keeps its keys or length.
C30_CodecNormalizesNested ==
    Serialized =>
        \A i \in 1..Len(an_event.content.parts) :
            LET v == an_event.content.parts[i].data
            IN v.kind \in {"dict", "list"} =>
                  /\ StoredResponse(i).kind = v.kind
                  /\ StoredResponse(i) = Normalized(v)

(***************************************************************************)
(* Properties of the chat turn                                              *)
(***************************************************************************)
IsContentFrame(f) == f.is_json /\ f.key = "content"
IsSessionIdFrame(f) == f.is_json /\ f.key = "session_id"

\* the texts that tell the caller of a failure
FailureTexts ==
    {SetupErrorText} \cup {RunErrorText(e) : e \in RunErrors} \cup RunErrors

IsFailureFrame(f) == IsContentFrame(f) /\ f.value \in FailureTexts

\* the stream has run to its end
StreamEnded == tpc = "end"

\* the assistant messages the turn wrote to the secondary store
SavedAssistant ==
    SelectSeqIdx(saved, {i \in 1..Len(saved) : saved[i].role = "assistant"})

\* C12 as stated: a stream that ended after a handled failure, of the session
\* setup or of the agent run, holds an error content frame and, after it, the
\* terminal marker.
C12_ErrorFrameThenMarker ==
    (StreamEnded /\ outcome \in {"setup_error", "run_error"}) =>
        \E i, j \in 1..Len(frames) :
            /\ i < j
            /\ IsFailureFrame(frames[i])
            /\ frames[j] = DoneChunk

\* C13 as stated: a stream that ran to its end holds exactly one session_id
\* frame; it is the last frame, it comes after the terminal marker, and it
\* carries the session id of the turn, which for a request without session id
\* (or with "null") is the id of the document created in this turn.
C13_SessionIdFrameLast ==
    StreamEnded =>
        /\ Cardinality({i \in 1..Len(frames) : IsSessionIdFrame(frames[i])}) = 1
        /\ IsSessionIdFrame(frames[Len(frames)])
        /\ \E j \in 1..(Len(frames) - 1) : frames[j] = DoneChunk
        /\ frames[Len(frames)].value = adk_session_id
        /\ (request.session_id \in {None, "null"}) =>
              /\ adk_session_id \in DOMAIN mongo
              /\ adk_session_id \notin {None, "null"}
              /\ mongo[adk_session_id] = saved

\* the text of an event: its text parts, concatenated
EventText(e) == ContentText(e.content.parts)

\* the events of the model that the run appended to the session and that
\* carry text
AppendedAssistant ==
    SelectSeqIdx(appended,
                 {i \in 1..Len(appended) :
                     /\ appended[i].author # "user"
                     /\ EventText(appended[i]) # ""})

\* C14 as stated: when the agent run is exhausted without a failure, the turn
\* appends exactly one assistant record holding the whole text of the turn to
\* the Session Store and exactly one to the secondary store.
C14_OneAssistantRecord ==
    (StreamEnded /\ outcome = "exhausted" /\ last_response.error_code = None) =>
        /\ SavedAssistant = <<Message("assistant", full_response)>>
        /\ Len(AppendedAssistant) = 1
        /\ EventText(AppendedAssistant[1]) = full_response

\* C15 as stated: a turn whose setup or agent run failed saves no assistant
\* message to the secondary store.
C15_NoAssistantSavedOnFailure ==
    (StreamEnded /\ outcome \in {"setup_error", "run_error"}) =>
        SavedAssistant = <<>>

\* the events a list of secondary messages is to be replayed as
Replayed(msgs) ==
    LET kept == SelectSeqIdx(msgs, {i \in 1..Len(msgs) : msgs[i].content # ""})
    IN [i \in 1..Len(kept) |->
           [author |-> kept[i].role,
            content |-> [role |-> kept[i].role,
                         parts |-> <<[kind |-> "text", text |-> kept[i].content,
                                      id |-> None, name |-> None,
                                      data |-> None]>>]]]

\* the setup of the turn found no durable session, replayed the messages of
\* the secondary store and is complete
Hydrated ==
    /\ tpc = "run"
    /\ Len(mongo_messages) > 0

\* C16: after a setup that found no durable session and replayed the
\* secondary messages, get_session returns, for the session, one text-only
\* event per message with non-empty content, in the order of the secondary
\* store, with author and role of the message and its content as text, and
\* nothing for a message with empty content; the handle holds the same.
C16_HydrationReplaysMessages ==
    Hydrated =>
        LET r == GetSessionInner(db, TurnTriple(request, adk_session_id))
        IN /\ mongo_messages = mongo[adk_session_id]
           /\ r.kind = "Session"
           /\ r.session.events = Replayed(mongo_messages)
           /\ existing_session.events = Replayed(mongo_messages)

\* C16 witness: four secondary messages, one of them empty, were replayed
\* as three events, an assistant message among them.
C16_Witness ==
    /\ Hydrated
    /\ Len(mongo_messages) = 4
    /\ \E i \in 1..4 : mongo_messages[i].content = ""
    /\ \E i \in 1..4 : mongo_messages[i].role = "assistant"
    /\ Len(EventsOfRow(db[KeyOf(TurnTriple(request, adk_session_id))])) = 3

RECURSIVE ConvertAll(_)
\* the conversion loop over the contents of a list of events
ConvertAll(events) ==
    IF events = <<>> THEN <<>>
    ELSE ConvertAll(SubSeq(events, 1, Len(events) - 1))
            \o MessagesOf(events[Len(events)].content)

\* the messages generate_content_async sends for a list of events
Flattened(events) ==
    LET converted == ConvertAll(events)
    IN CleanMessages(converted, ToolResponseIds(converted))

\* C17: when every message of the secondary record has role user or
\* assistant and non-empty content, the reconciler turns the events of the
\* hydrated session into the {role, content} pairs of the messages, in
\* order: no tool_calls, no tool-role message.
C17_HydratedHistoryFlattens ==
    (Hydrated /\ \A i \in 1..Len(mongo_messages) :
                    /\ mongo_messages[i].role \in {"user", "assistant"}
                    /\ mongo_messages[i].content # "") =>
        LET r == GetSessionInner(db, TurnTriple(request, adk_session_id))
            sent == Flattened(r.session.events)
        IN /\ Len(sent) = Len(mongo_messages)
           /\ \A i \in 1..Len(sent) :
                 /\ sent[i].role = mongo_messages[i].role
                 /\ sent[i].content = mongo_messages[i].content
                 /\ ~sent[i].has_tool_calls
                 /\ sent[i].tool_call_id = None

\* C17 witness: a record of a user, an assistant and a user message was
\* hydrated.
C17_Witness ==
    /\ Hydrated
    /\ Len(mongo_messages) = 3
    /\ \A i \in 1..3 : mongo_messages[i].content # ""
    /\ mongo_messages[2].role = "assistant"
    /\ Len(Flattened(existing_session.events)) = 3

\* C18 as stated: when the caller went away after text of the agent run had
\* been forwarded, the text accumulated by then is saved as the assistant
\* message of the turn.
C18_DisconnectStillPersists ==
    (/\ tpc = "closed"
     /\ outcome \notin {"setup_error", "run_error"}
     /\ full_response # ""
     /\ adk_session_id \in DOMAIN mongo) =>
        /\ SavedAssistant = <<Message("assistant", full_response)>>
        /\ mongo[adk_session_id][Len(mongo[adk_session_id])] =
              Message("assistant", full_response)

\* C19 as stated: a turn in which the completion call failed delivers exactly
\* one content frame that describes the failure and, after it, the terminal
\* marker; the stream runs to its end.
C19_BackendFailureReported ==
    (StreamEnded /\ last_response.error_code # None) =>
        /\ Cardinality({i \in 1..Len(frames) : IsFailureFrame(frames[i])}) = 1
        /\ \E i, j \in 1..Len(frames) :
              /\ i < j
              /\ IsFailureFrame(frames[i])
              /\ frames[j] = DoneChunk

\* the payloads of the content frames delivered, in order
ContentFrameTexts ==
    LET cf == SelectSeqIdx(frames,
                           {i \in 1..Len(frames) : IsContentFrame(frames[i])})
    IN [i \in 1..Len(cf) |-> cf[i].value]

\* the non-empty texts of a list of parts, in order
NonEmptyTexts(ps) ==
    LET sel == SelectSeqIdx(ps, {i \in 1..Len(ps) :
                                    ps[i].kind = "text" /\ ps[i].text # ""})
    IN [i \in 1..Len(sel) |-> sel[i].text]

RECURSIVE TextsOfEvents(_)
\* the non-empty texts of a list of events, event after event
TextsOfEvents(events) ==
    IF events = <<>> THEN <<>>
    ELSE NonEmptyTexts(events[1].content.parts) \o TextsOfEvents(Tail(events))

\* the events the agent loop produced: those appended after the user's
ProducedEvents == IF appended = <<>> THEN <<>> ELSE Tail(appended)

RECURSIVE Joined(_)
\* the strings of a list, one after the other
Joined(strs) == IF strs = <<>> THEN "" ELSE strs[1] \o Joined(Tail(strs))

\* the turn ended in one of the two handlers of stream_generator
HandledFailure == outcome \in {"setup_error", "run_error"}

\* C26 as stated: at every point of a turn the content frames delivered are
\* the non-empty text parts of the events the agent loop produced, one frame
\* per part, in order and once each, and the accumulated text is the
\* concatenation of the content frames delivered.
C26_ContentFramesAreEventTexts ==
    /\ ContentFrameTexts = TextsOfEvents(ProducedEvents)
    /\ full_response = Joined(ContentFrameTexts)

\* C26 amended: the same, but for the one error frame of a handled failure.
\* The content frames delivered are the non-empty text parts of the events
\* produced, one frame per part, in order and once each, followed after a
\* handled failure of the setup or of the run by the one frame of the error
\* text; the accumulated text is the concatenation of all of them.
C26_ContentFramesButFailure ==
    /\ IF HandledFailure
       THEN /\ ContentFrameTexts # <<>>
            /\ SubSeq(ContentFrameTexts, 1, Len(ContentFrameTexts) - 1) =
                  TextsOfEvents(ProducedEvents)
            /\ ContentFrameTexts[Len(ContentFrameTexts)] \in FailureTexts
       ELSE ContentFrameTexts = TextsOfEvents(ProducedEvents)
    /\ full_response = Joined(ContentFrameTexts)

\* C26 witness: the run produced the event of the texts "b", "", "c" and an
\* event of a text with a tool call, then raised; the stream ended with the
\* frames b, c, a, the error frame, the marker and the session id.
C26_Witness ==
    /\ StreamEnded
    /\ outcome = "run_error"
    /\ Len(appended) = 3
    /\ ContentFrameTexts = <<"b", "c", "a", RunErrorText("boom")>>
    /\ Len(frames) = 6

\* this step writes a message of the role to the secondary store
Saves(role) ==
    /\ Len(saved') = Len(saved) + 1
    /\ saved'[Len(saved')].role = role

\* this step delivers a frame to the caller
Emits == Len(frames') > Len(frames)

\* this step invokes the agent loop or is a step of it
RunsAgent == Len(appended') > Len(appended)

C28_SetupFailure ==
    outcome = "setup_error" =>
        /\ ContentFrameTexts = <<SetupErrorText>>
        /\ appended = <<>>
        /\ last_response = NoResponse
        /\ tpc \in {"stream_end", "saved", "end", "closed"}
        /\ StreamEnded => IsSessionIdFrame(frames[Len(frames)])

\* C28 witness: the hydration appended a message and then an append raised;
\* the stream ended with the error frame and the session_id frame.
C28_Witness ==
    /\ outcome = "setup_error"
    /\ StreamEnded
    /\ msg_idx > 1
    /\ existing_session.events # <<>>
    /\ Len(frames) = 2
    /\ frames[1] = ContentChunk(SetupErrorText)

(***************************************************************************)
(* Properties of the Session Store                                         *)
(***************************************************************************)
\* process p starts the call `name` in this step
Starts(p, name) ==
    n_ops' = n_ops + 1 /\ caller' = p /\ op'[p].name = name

\* the call of process p that was waiting at `at` finishes in this step
Finishes(p, at) == pc[p] = at /\ pc'[p] = "idle"

\* every row of rows is a row of rows2, unchanged
Kept(rows, rows2) ==
    \A k \in DOMAIN rows : k \in DOMAIN rows2 /\ rows2[k] = rows[k]

\* C3 as stated: a successful append_event(handle, e) on a session that holds
\* N events makes get_session return N+1 events: the N former ones in their
\* order, then e.
C3_AppendThenGet ==
    [][\A p \in Procs :
          (Finishes(p, "append_commit") /\ ret'[p].kind = "None") =>
              LET t == op[p].triple
                  before == GetSessionInner(db, t)
                  after == GetSessionInner(db', t)
              IN /\ after.kind = "Session"
                 /\ after.session.events =
                       Append(before.session.events, op[p].event)]_vars

\* C4: create_session called one call at a time never changes or removes a
\* stored row, and it returns, without raising, a Session whose events are
\* those the row of its key holds; the key has one row afterwards.
C4_CreateIdempotent ==
    [][\A p \in Procs :
          (Starts(p, "create_session") \/ Finishes(p, "create_commit")) =>
              LET session_key == KeyOf(op'[p].triple)
              IN /\ Kept(db, db')
                 /\ DOMAIN db' \subseteq DOMAIN db \cup {session_key}
                 /\ pc'[p] = "idle" =>
                       /\ ret'[p].kind = "Session"
                       /\ session_key \in DOMAIN db'
                       /\ ret'[p].session.events = EventsOfRow(db'[session_key])]_vars

\* C4 witness: a create_session on a key whose row holds events has returned
\* them.
C4_Witness ==
    \E p \in Procs :
        /\ pc[p] = "idle" /\ caller = p
        /\ op[p].name = "create_session"
        /\ ret[p].kind = "Session"
        /\ ret[p].session.events # <<>>
        /\ KeyOf(op[p].triple) \in DOMAIN db
        /\ EventsOfRow(db[KeyOf(op[p].triple)]) = ret[p].session.events

\* C5: the list a successful append_event writes back is the list its own
\* query read plus its event, whatever the row holds by then: an event that
\* another process appended in between is overwritten.
C5_WritesBackTheListRead ==
    [][\A p \in Procs :
          (Finishes(p, "append_commit") /\ ret'[p].kind = "None") =>
              LET session_key == KeyOf(op[p].triple)
              IN /\ session_key \in DOMAIN db'
                 /\ JsonLoads(db'[session_key].events_json) =
                       Append(JsonLoads(record[p].events_json),
                              SerializeEvent(op[p].event))]_vars

\* C5 witness: two processes appended to the same session, both read the same
\* N stored events, both calls succeeded, and the row holds N+1 events.
C5_Witness ==
    \E p, q \in Procs :
        /\ p # q
        /\ pc[p] = "idle" /\ pc[q] = "idle"
        /\ op[p].name = "append_event" /\ op[q].name = "append_event"
        /\ op[p].triple = op[q].triple
        /\ ret[p] = ReturnedNone /\ ret[q] = ReturnedNone
        /\ record[p] = record[q]
        /\ KeyOf(op[p].triple) \in DOMAIN db
        /\ Len(JsonLoads(db[KeyOf(op[p].triple)].events_json)) =
              Len(JsonLoads(record[p].events_json)) + 1

\* C6: append_event on a handle whose key has no row raises the not-found
\* ValueError, creates no row and leaves every handle as it was.
C6_AppendToMissingSession ==
    [][\A p \in Procs :
          (Starts(p, "append_event") /\ KeyOf(op'[p].triple) \notin DOMAIN db) =>
              /\ pc'[p] = "idle"
              /\ ret'[p].kind = "raise"
              /\ ret'[p].error.cls = "ValueError"
              /\ Contains(ret'[p].error.msg, <<"not", "found">>)
              /\ db' = db
              /\ handle' = handle]_vars

\* C6 witness: an append_event on a held handle raised not-found and the key
\* still has no row.
C6_Witness ==
    \E p \in Procs :
        /\ pc[p] = "idle" /\ caller = p
        /\ op[p].name = "append_event"
        /\ handle[p] # NoSession
        /\ ret[p].kind = "raise" /\ ret[p].error.cls = "ValueError"
        /\ KeyOf(op[p].triple) \notin DOMAIN db

\* C7: delete_session changes no row of another key; on a key without a row
\* it changes nothing; it returns without raising, and get_session on the key
\* then finds no row.
C7_Delete ==
    [][\A p \in Procs :
          (Starts(p, "delete_session") \/ Finishes(p, "delete_commit")) =>
              LET t == op'[p].triple
                  session_key == KeyOf(t)
              IN /\ \A k \in (DOMAIN db \cup DOMAIN db') \ {session_key} :
                       k \in DOMAIN db /\ k \in DOMAIN db' /\ db'[k] = db[k]
                 /\ session_key \notin DOMAIN db => db' = db
                 /\ pc'[p] = "idle" =>
                       /\ ret'[p] = ReturnedNone
                       /\ session_key \notin DOMAIN db'
                       /\ GetSessionInner(db', t).kind = "None"]_vars

\* C7 witness: after create(k1), create(k2), delete(k1) the row of k1 is gone
\* and the row of k2 is there.
C7_Witness ==
    \E p \in Procs :
        /\ pc[p] = "idle" /\ caller = p /\ n_ops = 3
        /\ op[p].name = "delete_session"
        /\ ret[p] = ReturnedNone
        /\ handle[p].id = op[p].triple.session_id
        /\ KeyOf(op[p].triple) \notin DOMAIN db
        /\ DOMAIN db # {}

\* C20: list_sessions(app, user) returns one Session for each row stored
\* for that application and user and no other: each with the row's session
\* id and the row's events, all of them and in the stored order; a row of
\* another user or of another application is never among them.
C20_ListSessions ==
    \A p \in Procs :
        (op[p].name = "list_sessions" /\ pc[p] = "idle") =>
            LET app == op[p].triple.app_name
                user == op[p].triple.user_id
                listed == ret[p].sessions
            IN /\ ret[p].kind = "list"
               /\ \A s \in listed : s.app_name = app /\ s.user_id = user
               /\ \A k \in DOMAIN db :
                     (db[k].app_name = app /\ db[k].user_id = user) =>
                        \E s \in listed :
                           /\ s.id = db[k].session_id
                           /\ Len(s.events) = Len(JsonLoads(db[k].events_json))
                           /\ \A i \in 1..Len(s.events) :
                                 s.events[i] =
                                    DeserializeEvent(
                                       JsonLoads(db[k].events_json)[i])
               /\ Cardinality(listed) =
                     Cardinality({k \in DOMAIN db :
                                     db[k].app_name = app /\ db[k].user_id = user})

\* C20 witness: with rows of the same user under another application and of
\* another user under the same application in the table, list_sessions
\* returned the user's two sessions, one of them with two events.
C20_Witness ==
    \E p \in Procs :
        /\ op[p].name = "list_sessions" /\ pc[p] = "idle"
        /\ Cardinality(ret[p].sessions) = 2
        /\ \E s \in ret[p].sessions : Len(s.events) = 2
        /\ \E k \in DOMAIN db : db[k].app_name # op[p].triple.app_name
        /\ \E k \in DOMAIN db : db[k].user_id # op[p].triple.user_id

\* the list of event dicts a row stores
StoredList(row) == JsonLoads(row.events_json)

\* C21: over create, get, append and list calls issued one at a time, without
\* delete, every step leaves each stored row in the table and the event list
\* it stored before the step is a prefix of the list it stores after it: a
\* stored event is never reordered, edited or removed, and a step that
\* changes a list adds exactly one event at its end.
C21_StoredListOnlyExtended ==
    [][\A k \in DOMAIN db :
          /\ k \in DOMAIN db'
          /\ IsPrefix(StoredList(db[k]), StoredList(db'[k]))
          /\ Len(StoredList(db'[k])) <= Len(StoredList(db[k])) + 1]_vars

\* C21 witness: a session holds two different stored events, appended one
\* after the other, and a list_sessions call has returned them since, while
\* another session exists.
C21_Witness ==
    \E p \in Procs, k \in DOMAIN db :
        /\ pc[p] = "idle" /\ caller = p
        /\ op[p].name = "list_sessions"
        /\ Len(StoredList(db[k])) = 2
        /\ StoredList(db[k])[1] # StoredList(db[k])[2]
        /\ \E s \in ret[p].sessions : s.events = EventsOfRow(db[k])

\* a connection-level fault: an OperationalError whose text mentions a
\* connection
ConnectionLevel(e) ==
    /\ e.cls = "OperationalError"
    /\ "connection" \in {Lower(e.msg[i]) : i \in 1..Len(e.msg)}

\* the get_session call of p is the latest call and has returned
GetReturned(p) ==
    /\ caller = p
    /\ \A q \in Procs : pc[q] = "idle"
    /\ op[p].name = "get_session"

\* C8: a connection-level fault raised by the first or the second attempt of
\* get_session is not what the call raises, and a call whose attempt after
\* such faults completes returns what that attempt found: the session with
\* the stored events, or None when the key has no row.
C8_TransientFaultNotSurfaced ==
    \A p \in Procs :
        GetReturned(p) =>
            LET session_key == KeyOf(op[p].triple)
            IN /\ (ret[p].kind = "raise" /\ ConnectionLevel(ret[p].error)) =>
                     attempt[p] = max_retries - 1
               /\ (ret[p].kind # "raise" /\ attempt[p] \in {1, 2}) =>
                     IF session_key \in DOMAIN db
                     THEN /\ ret[p].kind = "Session"
                          /\ ret[p].session.id = op[p].triple.session_id
                          /\ ret[p].session.events = EventsOfRow(db[session_key])
                     ELSE ret[p] = ReturnedNone

\* C8 witness: two attempts raised connection-level faults, the third found
\* the session, and the call returned it.
C8_Witness ==
    \E p \in Procs :
        /\ GetReturned(p)
        /\ attempt[p] = 2
        /\ disposals[p] = 2
        /\ ret[p].kind = "Session"
        /\ ret[p].session.events # <<>>

\* C9: get_session makes at most max_retries attempts; its last attempt ends
\* the call; a fault that ends the call is raised to the caller; and None is
\* returned only by an attempt that found no row.
C9_BoundedRetry ==
    [][\A p \in Procs :
          (pc[p] = "get_attempt"
             /\ <<pc'[p], attempt'[p]>> # <<pc[p], attempt[p]>>) =>
              /\ attempt'[p] <= max_retries - 1
              /\ disposals'[p] <= max_retries - 1
              /\ attempt[p] = max_retries - 1 => pc'[p] = "idle"
              /\ (pc'[p] = "idle" /\ exc'[p] # NoError) =>
                    ret'[p] = Raised(exc'[p])
              /\ ret'[p].kind = "None" =>
                    KeyOf(op[p].triple) \notin DOMAIN db]_vars

\* C9 witness: all three attempts raised a connection-level fault and the
\* call raised it.
C9_Witness ==
    \E p \in Procs :
        /\ GetReturned(p)
        /\ attempt[p] = max_retries - 1
        /\ disposals[p] = max_retries - 1
        /\ ret[p].kind = "raise"
        /\ ConnectionLevel(ret[p].error)

\* C10: an attempt of get_session that raises an error which is not a
\* connection-level fault ends the call by raising that error: no further
\* attempt, no disposal of the pool; as the first attempt it is the only one.
C10_OtherErrorsPropagate ==
    [][\A p \in Procs :
          (pc[p] = "get_attempt"
             /\ <<pc'[p], attempt'[p]>> # <<pc[p], attempt[p]>>
             /\ exc'[p] # NoError
             /\ ~ConnectionLevel(exc'[p])) =>
              /\ pc'[p] = "idle"
              /\ ret'[p] = Raised(exc'[p])
              /\ attempt'[p] = attempt[p]
              /\ disposals'[p] = disposals[p]]_vars

\* C10 witness: the first attempt raised an OperationalError that mentions no
\* connection, and the call raised it after that one attempt.
C10_Witness ==
    \E p \in Procs :
        /\ GetReturned(p)
        /\ ret[p].kind = "raise"
        /\ ret[p].error.cls = "OperationalError"
        /\ ~ConnectionLevel(ret[p].error)
        /\ attempt[p] = 0
        /\ disposals[p] = 0

(***************************************************************************)
(* Properties of the chat turn and the durable log                         *)
(***************************************************************************)
\* the row of the turn's session
TurnKey == KeyOf(TurnTriple(request, adk_session_id))

\* the events the log of the session held when the turn looked it up: those
\* of the Session found, none when the turn created the Session
HeldBefore ==
    IF Len(mongo_messages) > 0 THEN 0 ELSE Len(existing_session.events)

\* the events the turn added to the durable log of its session, as stored
TurnEntries ==
    LET log == StoredList(db[TurnKey])
    IN [i \in 1..(Len(log) - HeldBefore) |->
           DeserializeEvent(log[HeldBefore + i])]

\* the entries of the turn that are the user's and have the text of the
\* turn's message
UserMessageEntries ==
    {i \in 1..Len(TurnEntries) :
        /\ TurnEntries[i].author = "user"
        /\ TurnEntries[i].content # NoContent
        /\ EventText(TurnEntries[i]) = request.message}

\* the turn ran to the end of its stream and the agent run was exhausted
CompletedTurn == StreamEnded /\ outcome = "exhausted"

\* C31 as stated: after a completed turn, also one that created the durable
\* session and hydrated it from the secondary store, the turn's user message
\* is in the durable event log of the session exactly once.
C31_UserMessageOnce ==
    (CompletedTurn /\ TurnKey \in DOMAIN db) =>
        Cardinality(UserMessageEntries) = 1

(***************************************************************************)
(* Properties of concurrent setups                                         *)
(***************************************************************************)
\* every process has left the setup
SetupsOver == \A p \in Procs : setup_pc[p] \in {"ready", "failed"}

\* the stored event list of the shared session
SharedLog ==
    IF KeyOf(SharedTriple) \in DOMAIN db
    THEN EventsOfRow(db[KeyOf(SharedTriple)])
    ELSE <<>>

\* how often an event occurs in a list
Occurrences(e, log) == Cardinality({i \in 1..Len(log) : log[i] = e})

\* C32 as stated: once the setups of two turns for a session without a
\* durable record are over, every message of the secondary store occurs in
\* the stored event list at most as often as in the secondary store
C32_HydratedAtMostOnce ==
    SetupsOver =>
        LET replayed == Replayed(SharedMessages)
        IN \A i \in 1..Len(replayed) :
              Occurrences(replayed[i], SharedLog)
                  <= Occurrences(replayed[i], replayed)

\* the latest call of every process was create_session on one key, and all
\* of them have finished
CreatedTogether ==
    \E t \in Triples :
        \A p \in Procs :
            /\ pc[p] = "idle"
            /\ op[p] = Call("create_session", t, NoEvent)

\* C33 as stated: when the processes have each called create_session with
\* the same key, however their steps interleave, every call has returned a
\* session, none has raised, and the key has its one row
C33_ConcurrentCreatesReturn ==
    CreatedTogether =>
        \A p \in Procs :
            /\ ret[p].kind = "Session"
            /\ KeyOf(op[p].triple) \in DOMAIN db

(***************************************************************************)
(* Properties of the key                                                   *)
(***************************************************************************)
\* process p made a whole call in the step
Called(p) == n_ops' = n_ops + 1 /\ caller' = p

\* C34 as stated: a call on a triple leaves the rows of every other triple
\* as they are, and the session it returns is read from a row of its own
\* triple, whatever the ids hold
C34_TriplesIsolated ==
    [][\A p \in Procs :
          Called(p) =>
              LET t == op'[p].triple
              IN /\ \A k \in DOMAIN db :
                       TripleOfRow(db[k]) # t =>
                           k \in DOMAIN db' /\ db'[k] = db[k]
                 /\ (ret'[p].kind = "Session" /\ KeyOf(t) \in DOMAIN db) =>
                       TripleOfRow(db[KeyOf(t)]) = t]_vars

(***************************************************************************)
(* Properties of the handle of a single writer                             *)
(***************************************************************************)
\* the Session object h holds as many events as get_session returns for its
\* session, and the i-th event returned is what the codec makes of the i-th
\* event held
InStep(h, rows) ==
    LET r == GetSessionInner(rows, Triple(h.app_name, h.user_id, h.id))
    IN /\ r.kind = "Session"
       /\ Len(r.session.events) = Len(h.events)
       /\ \A i \in 1..Len(h.events) :
             r.session.events[i] = DeserializeEvent(SerializeEvent(h.events[i]))

\* the call of process p ends in this step
Ends(p) == pc'[p] = "idle" /\ (Called(p) \/ pc[p] # "idle")

\* C35: over calls made one at a time, the handle a create_session or
\* get_session returns is in step with the stored list; a successful
\* append_event on a handle that is in step (no one else wrote since) leaves
\* it in step, one event longer; an append_event that raises leaves the
\* handle and the table as they were
C35_HandleInStep ==
    [][\A p \in Procs :
          Ends(p) =>
              /\ (op'[p].name \in {"create_session", "get_session"}
                    /\ ret'[p].kind = "Session") =>
                     /\ handle'[p] = ret'[p].session
                     /\ InStep(handle'[p], db')
              /\ (op'[p].name = "append_event" /\ ret'[p].kind = "None"
                    /\ InStep(handle[p], db)) =>
                     /\ InStep(handle'[p], db')
                     /\ handle'[p].events = Append(handle[p].events, op'[p].event)
              /\ (op'[p].name = "append_event" /\ ret'[p].kind = "raise") =>
                     /\ handle'[p] = handle[p]
                     /\ db' = db]_vars

\* a writer has created a session and appended an event to it, which its
\* handle holds; the row was then deleted and the writer's next append_event
\* has raised
C35_Witness ==
    \E p \in Procs :
        /\ pc[p] = "idle"
        /\ op[p].name = "append_event" /\ ret[p].kind = "raise"
        /\ Len(handle[p].events) = 1
        /\ handle[p].events[1] \in StoreEvents
        /\ KeyOf(op[p].triple) \notin DOMAIN db

(***************************************************************************)
(* Properties of the hydration                                             *)
(***************************************************************************)
\* the turn's session has a row
Present == TurnKey \in DOMAIN db

\* the turn is in the branch that creates the session and replays the
\* secondary store
Hydrating == tpc \in {"create", "hydrate"}

\* C36: a turn whose get_session finds the session goes on to the run
\* without creating or replaying anything, whatever the row holds; the
\* branch that creates and replays is entered only from a get_session that
\* found nothing, and the secondary messages are read and replayed only in
\* that branch
C36_HydrationOnlyWhenAbsent ==
    [][/\ (tpc = "setup" /\ Present) =>
             /\ ~Hydrating'
             /\ db' = db
             /\ mongo_messages' = <<>>
       /\ (Hydrating' /\ ~Hydrating) => (tpc = "setup" /\ ~Present)
       /\ (mongo_messages' # mongo_messages \/ msg_idx' # msg_idx) =>
             Hydrating]_vars

\* the turn found a row that holds one event of a longer secondary history
\* and has reached the run with the row as it was
C36_Witness ==
    /\ tpc = "run"
    /\ Present
    /\ StoredList(db[TurnKey]) = PartLog
    /\ Len(GetSessionMessages(mongo, adk_session_id)) > Len(PartLog)
    /\ existing_session.events = EventsOfRow(db[TurnKey])
    /\ mongo_messages = <<>>

(***************************************************************************)
(* Properties of the tool messages of the list sent                        *)
(***************************************************************************)
\* C37 as stated: every tool message of the list sent comes after an
\* assistant message of the list whose tool_calls list its tool_call_id
C37_ToolMessagesHaveRequest ==
    rpc = "done" =>
        \A i \in 1..Len(cleaned_messages) :
            cleaned_messages[i].role = "tool" =>
                \E j \in 1..(i - 1) :
                    /\ cleaned_messages[j].role = "assistant"
                    /\ cleaned_messages[j].has_tool_calls
                    /\ cleaned_messages[i].tool_call_id
                          \in CallIdsOf(cleaned_messages[j])

(***************************************************************************)
(* Properties of a turn without text                                       *)
(***************************************************************************)
\* no content frame was delivered
NoContentFrame == \A i \in 1..Len(frames) : ~IsContentFrame(frames[i])

\* C38: a turn whose stream has ended without any content frame has saved no
\* assistant message, the last message of the session's document is still
\* the turn's user message, and the frames delivered are the terminal marker
\* and then the session_id frame
C38_NoTextNoAssistantMessage ==
    (StreamEnded /\ NoContentFrame) =>
        /\ SavedAssistant = <<>>
        /\ LET msgs == GetSessionMessages(mongo, adk_session_id)
           IN msgs # <<>> => msgs[Len(msgs)] = Message("user", request.message)
        /\ frames = <<DoneChunk, SessionIdChunk(adk_session_id)>>

\* the agent loop of a turn on a session with a document produced an event
\* without text, and the turn ended with the marker and the session_id frame
\* only
C38_Witness ==
    /\ StreamEnded
    /\ NoContentFrame
    /\ adk_session_id \in DOMAIN mongo
    /\ \E i \in 1..Len(appended) :
          /\ appended[i].author = "orchestrator"
          /\ appended[i].content.parts # <<>>
    /\ frames = <<DoneChunk, SessionIdChunk(adk_session_id)>>

(***************************************************************************)
(* Properties of the completion call                                       *)
(***************************************************************************)
\* the request declares a function to the backend
DeclaresTools ==
    \E i \in 1..Len(tools) :
        tools[i].has_declarations /\ tools[i].function_declarations # <<>>

IsErrorResponse(r) == r.error_code # None

\* the response of a chunk of the stream
IsPartialResponse(r) ==
    /\ ~IsErrorResponse(r)
    /\ r.partial
    /\ ~r.turn_complete

\* the response of a whole completion
IsCompleteResponse(r) ==
    /\ ~IsErrorResponse(r)
    /\ r.turn_complete
    /\ ~r.partial

\* C39: no exception of the completion call or of its stream leaves the
\* generator; a generator that has ended after one yielded, as its last
\* response, one response with the error code and the exception's message,
\* and only partial responses before it; the stream is used exactly when it
\* was requested and no function is declared, and then every response but
\* that of a failure is partial; without the stream exactly one response is
\* yielded, complete unless it is that of a failure
C39_CompletionFailureContained ==
    /\ gpc # "raised"
    /\ gpc \notin {"idle", "call"} => use_stream = (stream /\ ~DeclaresTools)
    /\ gpc \in {"stream", "message"} => failure = NoFailure
    /\ gpc = "stream" => use_stream
    /\ gpc = "message" => ~use_stream /\ yielded = <<>>
    /\ gpc = "end" =>
          LET n == Len(yielded)
              m == IF failure = NoFailure THEN n ELSE n - 1
          IN /\ failure # NoFailure =>
                   /\ n >= 1
                   /\ yielded[n] =
                         Response(NoContent, "OPENAI_ERROR", failure.msg,
                                  FALSE, FALSE)
             /\ \A i \in 1..m :
                   IF use_stream
                   THEN IsPartialResponse(yielded[i])
                   ELSE IsCompleteResponse(yielded[i])
             /\ ~use_stream => n = 1

\* a stream that was requested without declared functions raised after a
\* partial response: the generator has ended with the error response last
C39_Witness ==
    /\ gpc = "end"
    /\ use_stream
    /\ failure \in BackendErrors
    /\ Len(yielded) = 2
    /\ IsPartialResponse(yielded[1])
    /\ IsErrorResponse(yielded[2])

====
